---------------------------- MODULE Spec2Model ----------------------------
(***************************************************************************)
(* A model of the CHIP-8 interpreter of joshwd36/chip8: the interpreter    *)
(* thread (Chip8::run: pace timers, drain the keypad queue, fetch,         *)
(* execute), the presentation thread (MyApp::update: send key events,      *)
(* replay the display feed) and the two unbounded channels between them.   *)
(*                                                                         *)
(* Encodings.  A u8 is a number in 0..255 and a u16 one in 0..65535; every *)
(* arithmetic operator below states its width.  A boolean grid of 2048     *)
(* cells is the set of the indices whose cell is true.  The byte array of  *)
(* the memory is a function on the addresses that were ever loaded or      *)
(* written; every other cell holds 0.                                      *)
(***************************************************************************)
EXTENDS Integers, Sequences, FiniteSets, TLC

(***************************************************************************)
(* Bounds of the model.                                                    *)
(***************************************************************************)
\* keys 0..MaxKey are the keys the presentation thread sends events for
MaxKey == 1
\* the presentation thread sends only while fewer events than this wait
MaxEventQueue == 1
MaxBurst == 2
\* operand values 0..MaxOperand, 128-MaxOperand..128+MaxOperand-1 and
\* 255-MaxOperand..255 are loaded by the arithmetic programs
MaxOperand == 1
\* block transfers are run for the registers 0..X, X in 0..MaxBlockX and X = 15
MaxBlockX == 1
\* start columns 0..MaxColumn and 63-MaxColumn..63 of the drawing programs
MaxColumn == 1
\* the call programs nest their subroutines 1 .. MaxNesting deep
MaxNesting == 2

(***************************************************************************)
(* Program constants.                                                      *)
(***************************************************************************)
PROGRAM_START == 512
MEMORY_SIZE == 4096
DISPLAY_WIDTH == 64
DISPLAY_HEIGHT == 32
DISPLAY_CELLS == 2048
TIMER_DECREMENT == 16666667
INDEX_CEILING == 4095
U8 == 256
U16 == 65536

Byte == 0 .. (U8 - 1)
Register == 0 .. 15

(***************************************************************************)
(* Fixed-width arithmetic of the Rust integer types.                       *)
(***************************************************************************)
wrapping_add(a, b) == (a + b) % U8

OverflowingAddCarryOnEqual(a, b) ==
    [value |-> (a + b) % U8, overflowed |-> a + b >= U8 - 1]

overflowing_add(a, b) == [value |-> (a + b) % U8, overflowed |-> a + b > U8 - 1]

OverflowingSubBorrowOnEqual(a, b) ==
    [value |-> (a - b + U8) % U8, overflowed |-> a <= b]

overflowing_sub(a, b) == [value |-> (a - b + U8) % U8, overflowed |-> a < b]

saturating_sub(a, b) == IF a < b THEN 0 ELSE a - b

\* a u16 sum: the wrapped value, and whether the exact sum left the type
add_u16(a, b) == [value |-> (a + b) % U16, overflowed |-> a + b > U16 - 1]

\* a u16 difference: the wrapped value, and whether the exact one left the type
sub_u16(a, b) == [value |-> (a - b + U16) % U16, overflowed |-> a < b]

RECURSIVE Bitwise(_, _, _, _)
\* the bits-wide result of applying the one-bit operation f bit by bit
Bitwise(f, a, b, bits) ==
    IF bits = 0 THEN 0
    ELSE f[a % 2][b % 2] + 2 * Bitwise(f, a \div 2, b \div 2, bits - 1)

BitOr(a, b) == Bitwise([p \in 0..1 |-> [q \in 0..1 |-> IF p + q > 0 THEN 1 ELSE 0]], a, b, 8)
BitAnd(a, b) == Bitwise([p \in 0..1 |-> [q \in 0..1 |-> p * q]], a, b, 8)
BitXor(a, b) == Bitwise([p \in 0..1 |-> [q \in 0..1 |-> (p + q) % 2]], a, b, 8)
ShiftRightU8(a) == a \div 2
ShiftLeftU8(a) == (a * 2) % U8

RECURSIVE leading_zeros(_, _)
\* u8::leading_zeros: the zero bits above the highest set bit of the low
\* `bits` bits of num (8 when num = 0 and bits = 8)
leading_zeros(num, bits) ==
    IF bits = 0 THEN 0
    ELSE IF (num \div (2 ^ (bits - 1))) % 2 = 1 THEN 0
    ELSE 1 + leading_zeros(num, bits - 1)

(***************************************************************************)
(* struct Instruction: the fields of a 16-bit instruction word.            *)
(***************************************************************************)
first(value) == (value \div 4096) % 16
x(value) == (value \div 256) % 16
y(value) == (value \div 16) % 16
n(value) == value % 16
nn(value) == value % 256
nnn(value) == value % 4096

HexDigit(d) == SubSeq("0123456789abcdef", d + 1, d + 1)

\* impl Display for Instruction: "{:#06x}", the prefix 0x and four hex digits
FmtInstruction(value) ==
    "0x" \o HexDigit((value \div 4096) % 16) \o HexDigit((value \div 256) % 16)
         \o HexDigit((value \div 16) % 16) \o HexDigit(value % 16)

(***************************************************************************)
(* The state.  The fields of Chip8 and of the structs it owns, the two     *)
(* channels, the grid of the presentation thread, and the locals of        *)
(* Chip8::run and Chip8::display that live across an atomic step.          *)
(***************************************************************************)
VARIABLES
    settings,          \* Chip8.settings: the four quirk toggles
    overflow_checks,   \* the build profile: integer overflow panics (debug) or wraps (release)
    memory,            \* Memory: the byte array
    buffer,            \* Chip8Display.buffer: the cells that are true
    display_channel,   \* the DisplayInstruction values sent and not yet received
    stack,             \* Stack.buffer
    registers,         \* Registers.registers
    program_counter,   \* Chip8.program_counter
    index_register,    \* Chip8.index_register
    has_stopped,       \* Keypad.has_stopped
    key_states,        \* Keypad.key_states
    last_pressed,      \* Keypad.last_pressed: <<"NotWaiting">>, <<"Waiting">>, <<"Pressed", k>>
    event_channel,     \* the Event values sent and not yet received
    delay_timer,       \* Chip8.delay_timer.value
    sound_timer,       \* Chip8.sound_timer.value
    display_buffer,    \* MyApp.display_buffer: the cells that are true
    instruction,       \* the local `instruction` of Chip8::run: the word fetched last
    elapsed,           \* `time - last_decremented` of Chip8::run at its last timer check
    panicked,          \* "" while the interpreter thread runs, else its panic message
    draw,              \* the locals of Chip8::display while its loops run
    drained,           \* Chip8::run is between `self.keypad.process()` and `self.fetch()`
    hist,              \* history: the last two instructions completed, newest first
    stored,            \* history: the registers and the index of the last block store
    released,          \* history: the releases drained, as the specification words them
    calls              \* history: the calls and returns completed, and the open call sites

vars == <<settings, overflow_checks, memory, buffer, display_channel, stack,
          registers, program_counter, index_register, has_stopped, key_states,
          last_pressed, event_channel, delay_timer, sound_timer, display_buffer,
          instruction, elapsed, panicked, draw, drained, hist, stored, released, calls>>

\* the interpreter as one value: what the methods of Chip8 read and write
Self ==
    [settings |-> settings, overflow_checks |-> overflow_checks, memory |-> memory,
     buffer |-> buffer, display_channel |-> display_channel, stack |-> stack,
     registers |-> registers, program_counter |-> program_counter,
     index_register |-> index_register, has_stopped |-> has_stopped,
     key_states |-> key_states, last_pressed |-> last_pressed,
     event_channel |-> event_channel, delay_timer |-> delay_timer,
     sound_timer |-> sound_timer, instruction |-> instruction, elapsed |-> elapsed,
     panicked |-> panicked, draw |-> draw, drained |-> drained, hist |-> hist,
     stored |-> stored, released |-> released, calls |-> calls]

\* the interpreter's fields become those of the value s, computed once
Commit(s) ==
    \E t \in {s} :
        /\ settings' = t.settings
        /\ overflow_checks' = t.overflow_checks
        /\ memory' = t.memory
        /\ buffer' = t.buffer
        /\ display_channel' = t.display_channel
        /\ stack' = t.stack
        /\ registers' = t.registers
        /\ program_counter' = t.program_counter
        /\ index_register' = t.index_register
        /\ has_stopped' = t.has_stopped
        /\ key_states' = t.key_states
        /\ last_pressed' = t.last_pressed
        /\ event_channel' = t.event_channel
        /\ delay_timer' = t.delay_timer
        /\ sound_timer' = t.sound_timer
        /\ instruction' = t.instruction
        /\ elapsed' = t.elapsed
        /\ panicked' = t.panicked
        /\ draw' = t.draw
        /\ drained' = t.drained
        /\ hist' = t.hist
        /\ stored' = t.stored
        /\ released' = t.released
        /\ calls' = t.calls

\* a panic unwinds the interpreter thread: nothing after it is executed
Panic(s, message) == [s EXCEPT !.panicked = message]

OVERFLOW_ADD == "attempt to add with overflow"
OVERFLOW_SUB == "attempt to subtract with overflow"
UNWRAP_NONE == "called Option::unwrap on a None value"
INDEX_OUT_OF_BOUNDS == "index out of bounds"

(***************************************************************************)
(* Memory: 4096 bytes, the program image loaded at 0x200, every address    *)
(* taken modulo the capacity, words read big-endian.                       *)
(***************************************************************************)
MemoryNew(program) ==
    [a \in PROGRAM_START .. (PROGRAM_START + Len(program) - 1) |->
        program[a - PROGRAM_START + 1]]

get_u8(mem, address) ==
    IF address % MEMORY_SIZE \in DOMAIN mem THEN mem[address % MEMORY_SIZE] ELSE 0

\* big-endian: the byte at address is the high byte
get_u16(mem, address) == get_u8(mem, address) * 256 + get_u8(mem, address + 1)

set_u8(mem, address, value) ==
    [a \in DOMAIN mem \cup {address % MEMORY_SIZE} |->
        IF a = address % MEMORY_SIZE THEN value ELSE mem[a]]

(***************************************************************************)
(* Registers, Stack, Timer.                                                *)
(***************************************************************************)
get_value(regs, register) == regs[register]

set_value(regs, register, value) == [regs EXCEPT ![register] = value]

PushUnderneath(stk, value) == <<value>> \o stk

push(stk, value) == Append(stk, value)

PopOrZero(stk) ==
    IF Len(stk) = 0 THEN [some |-> TRUE, value |-> 0, buffer |-> stk]
    ELSE [some |-> TRUE, value |-> stk[Len(stk)], buffer |-> SubSeq(stk, 1, Len(stk) - 1)]

\* Vec::pop: None on an empty vector, else the last element, removed
pop(stk) ==
    IF Len(stk) = 0 THEN [some |-> FALSE, value |-> 0, buffer |-> stk]
    ELSE [some |-> TRUE, value |-> stk[Len(stk)], buffer |-> SubSeq(stk, 1, Len(stk) - 1)]

decrement(value) == saturating_sub(value, 1)

(***************************************************************************)
(* Chip8Display.                                                           *)
(***************************************************************************)
DisplaySetNoSend(s, px, py) ==
    LET index == px + py * DISPLAY_WIDTH
        existing == index \in s.buffer
    IN  [self |-> [s EXCEPT !.buffer = IF existing THEN @ \ {index} ELSE @ \cup {index}],
         existing |-> existing]

DisplaySetNeverClears(s, px, py) ==
    LET index == px + py * DISPLAY_WIDTH
        existing == index \in s.buffer
    IN  [self |-> [s EXCEPT !.buffer = @ \cup {index},
                            !.display_channel = Append(@, <<"Set", TRUE, index>>)],
         existing |-> existing]

DisplaySetReturnsNew(s, px, py) ==
    LET index == px + py * DISPLAY_WIDTH
        existing == index \in s.buffer
    IN  [self |-> [s EXCEPT !.buffer = IF existing THEN @ \ {index} ELSE @ \cup {index},
                            !.display_channel = Append(@, <<"Set", ~existing, index>>)],
         existing |-> ~existing]

\* Chip8Display::set: toggle the cell, send its new value, return the old one
display_set(s, px, py) ==
    LET index == px + py * DISPLAY_WIDTH
        existing == index \in s.buffer
    IN  [self |-> [s EXCEPT !.buffer = IF existing THEN @ \ {index} ELSE @ \cup {index},
                            !.display_channel = Append(@, <<"Set", ~existing, index>>)],
         existing |-> existing]

DisplayClearKeepsBuffer(s) == [s EXCEPT !.display_channel = Append(@, <<"Clear">>)]

\* Chip8Display::clear
display_clear(s) == [s EXCEPT !.buffer = {}, !.display_channel = Append(@, <<"Clear">>)]

\* MyApp::update, one arm of its match: a grid after one DisplayInstruction
Replay(grid, di) ==
    IF di[1] = "Clear" THEN {}
    ELSE IF di[2] THEN grid \cup {di[3]} ELSE grid \ {di[3]}

RECURSIVE ReplayAll(_, _)
\* a grid after the instructions of a queue, oldest first
ReplayAll(grid, queue) ==
    IF queue = <<>> THEN grid ELSE ReplayAll(Replay(grid, Head(queue)), Tail(queue))

(***************************************************************************)
(* Keypad.  An Event is <<"KeyDown", k>>, <<"KeyUp", k>> or <<"Stop">>.    *)
(* The history `released` restates the latch without the three-valued      *)
(* state of the code: pending is the key of the last KeyUp drained since   *)
(* the key-wait last ran (-1: none); waiting says that the key-wait that   *)
(* ran last took no key; latched is the key of the last KeyUp drained      *)
(* since the key-wait last ran while waiting (-1: none); found_pending and *)
(* found_latched are what pending and latched were when the key-wait last  *)
(* ran; overwritten says that the last KeyUp drained while waiting         *)
(* replaced a key that latched held, and found_overwritten what it said    *)
(* when the key-wait last ran.  queued says, for each event of the queue,  *)
(* whether waiting held when the presentation thread sent it;              *)
(* latched_in_wait says it of the KeyUp that latched records, and          *)
(* found_in_wait what it said when the key-wait last ran.                  *)
(***************************************************************************)
NO_KEY == -1

KeyUpTransitionAlwaysLatches(lp, key) == <<"Pressed", key>>

KeyUpTransitionNeverLatches(lp, key) == lp

KeyUpTransitionKeepsFirst(lp, key) ==
    IF lp[1] = "Waiting" THEN <<"Pressed", key>> ELSE lp

\* Keypad::process, the inner match of the KeyUp arm
KeyUpTransition(lp, key) ==
    IF lp[1] = "NotWaiting" THEN <<"NotWaiting">> ELSE <<"Pressed", key>>

\* Keypad::process, the body of its loop for one received event
apply_event(s, event) ==
    IF event[1] = "KeyDown" THEN
        [s EXCEPT !.key_states = [@ EXCEPT ![event[2]] = TRUE]]
    ELSE IF event[1] = "KeyUp" THEN
        [s EXCEPT !.key_states = [@ EXCEPT ![event[2]] = FALSE],
                  !.last_pressed = KeyUpTransition(@, event[2]),
                  !.released = [@ EXCEPT !.pending = event[2],
                                         !.latched = IF s.released.waiting THEN event[2] ELSE @,
                                         !.overwritten = IF s.released.waiting
                                                         THEN s.released.latched # NO_KEY
                                                         ELSE @,
                                         !.latched_in_wait = IF s.released.waiting
                                                             THEN Head(s.released.queued)
                                                             ELSE @]]
    ELSE [s EXCEPT !.has_stopped = TRUE]

RECURSIVE process(_)
\* Keypad::process: receive until the channel is empty
process(s) ==
    IF s.event_channel = <<>> THEN s
    ELSE LET t == apply_event([s EXCEPT !.event_channel = Tail(@)], Head(s.event_channel))
         IN  process([t EXCEPT !.released = [@ EXCEPT !.queued = Tail(@)]])

\* Keypad::is_key_pressed: an index past the 16 states panics
is_key_pressed(s, key_number) ==
    IF key_number < 16 THEN [panic |-> FALSE, pressed |-> s.key_states[key_number]]
    ELSE [panic |-> TRUE, pressed |-> FALSE]

LastPressedKeepsPressed(s) ==
    IF s.last_pressed[1] = "Pressed"
    THEN [self |-> s, some |-> TRUE, key |-> s.last_pressed[2]]
    ELSE [self |-> [s EXCEPT !.last_pressed = <<"Waiting">>], some |-> FALSE, key |-> 0]

\* Keypad::last_pressed: take the latched key, or start waiting for one
keypad_last_pressed(s) ==
    IF s.last_pressed[1] = "Pressed"
    THEN [self |-> [s EXCEPT !.last_pressed = <<"NotWaiting">>],
          some |-> TRUE, key |-> s.last_pressed[2]]
    ELSE [self |-> [s EXCEPT !.last_pressed = <<"Waiting">>], some |-> FALSE, key |-> 0]

(***************************************************************************)
(* Chip8::run, the steps of one iteration before execute.                  *)
(***************************************************************************)
PaceEveryIteration(s, since) ==
    [s EXCEPT !.elapsed = since, !.delay_timer = decrement(@),
              !.sound_timer = decrement(@)]

\* the timer check, since being time - last_decremented in nanoseconds
pace(s, since) ==
    IF since >= TIMER_DECREMENT
    THEN [s EXCEPT !.elapsed = since, !.delay_timer = decrement(@),
                   !.sound_timer = decrement(@)]
    ELSE [s EXCEPT !.elapsed = since]

\* Chip8::fetch
fetch(s) ==
    LET word == get_u16(s.memory, s.program_counter)
        sum == add_u16(s.program_counter, 2)
    IN  IF sum.overflowed /\ s.overflow_checks THEN Panic(s, OVERFLOW_ADD)
        ELSE [s EXCEPT !.instruction = word, !.program_counter = sum.value]

\* what hist keeps of the state an instruction started from
Snapshot(s, word) ==
    [instruction |-> word, program_counter |-> s.program_counter,
     registers |-> s.registers, index_register |-> s.index_register,
     buffer |-> s.buffer]

\* what the history `calls` becomes when an instruction has completed: a
\* call opens its site, the address of the call instruction; a return closes
\* the site opened last
Called(c, before) ==
    IF first(before.instruction) = 2
    THEN [c EXCEPT !.calls = @ + 1, !.sites = Append(@, before.program_counter)]
    ELSE IF before.instruction = 238
    THEN [c EXCEPT !.returns = @ + 1, !.sites = SubSeq(@, 1, Len(@) - 1)]
    ELSE c

\* the instruction has returned to the loop of Chip8::run
Complete(s, before) ==
    IF s.panicked # "" THEN s
    ELSE [s EXCEPT !.hist = IF @ = <<>> THEN <<before>> ELSE <<before, @[1]>>,
                   !.calls = Called(@, before)]

(***************************************************************************)
(* The instruction handlers of Chip8.  Each takes the interpreter after    *)
(* the fetch and returns it after the handler.                             *)
(***************************************************************************)
\* `self.program_counter += 2` of the skips
SkipNext(s) ==
    LET sum == add_u16(s.program_counter, 2)
    IN  IF sum.overflowed /\ s.overflow_checks THEN Panic(s, OVERFLOW_ADD)
        ELSE [s EXCEPT !.program_counter = sum.value]

clear_display(s) == display_clear(s)

chip8_set_value(s, register_number, value) ==
    [s EXCEPT !.registers = set_value(@, register_number, value)]

set_index(s, value) == [s EXCEPT !.index_register = value]

jump(s, address) == [s EXCEPT !.program_counter = address]

add_value(s, register_number, value) ==
    [s EXCEPT !.registers =
        set_value(@, register_number, wrapping_add(get_value(@, register_number), value))]

skip_if_equals_value(s, register_number, value) ==
    IF get_value(s.registers, register_number) = value THEN SkipNext(s) ELSE s

skip_if_not_equals_value(s, register_number, value) ==
    IF get_value(s.registers, register_number) # value THEN SkipNext(s) ELSE s

skip_if_equals_register(s, register_number_x, register_number_y) ==
    IF get_value(s.registers, register_number_x) = get_value(s.registers, register_number_y)
    THEN SkipNext(s) ELSE s

skip_if_not_equals_register(s, register_number_x, register_number_y) ==
    IF get_value(s.registers, register_number_x) # get_value(s.registers, register_number_y)
    THEN SkipNext(s) ELSE s

call_subroutine(s, address) ==
    [s EXCEPT !.stack = push(@, s.program_counter), !.program_counter = address]

\* `self.stack.pop().unwrap()`: None panics
return_subroutine(s) ==
    LET popped == pop(s.stack)
    IN  IF ~popped.some THEN Panic(s, UNWRAP_NONE)
        ELSE [s EXCEPT !.stack = popped.buffer, !.program_counter = popped.value]

set_register(s, register_number_x, register_number_y) ==
    [s EXCEPT !.registers = set_value(@, register_number_x, get_value(@, register_number_y))]

or_register(s, register_number_x, register_number_y) ==
    [s EXCEPT !.registers = set_value(@, register_number_x,
        BitOr(get_value(@, register_number_x), get_value(@, register_number_y)))]

and_register(s, register_number_x, register_number_y) ==
    [s EXCEPT !.registers = set_value(@, register_number_x,
        BitAnd(get_value(@, register_number_x), get_value(@, register_number_y)))]

xor_register(s, register_number_x, register_number_y) ==
    [s EXCEPT !.registers = set_value(@, register_number_x,
        BitXor(get_value(@, register_number_x), get_value(@, register_number_y)))]

add_register(s, register_number_x, register_number_y) ==
    LET r == overflowing_add(get_value(s.registers, register_number_x),
                             get_value(s.registers, register_number_y))
    IN  [s EXCEPT !.registers =
            set_value(set_value(@, register_number_x, r.value),
                      15, IF r.overflowed THEN 1 ELSE 0)]

sub_register_xy(s, register_number_x, register_number_y) ==
    LET r == overflowing_sub(get_value(s.registers, register_number_x),
                             get_value(s.registers, register_number_y))
    IN  [s EXCEPT !.registers =
            set_value(set_value(@, register_number_x, r.value),
                      15, IF ~r.overflowed THEN 1 ELSE 0)]

sub_register_yx(s, register_number_x, register_number_y) ==
    LET r == overflowing_sub(get_value(s.registers, register_number_y),
                             get_value(s.registers, register_number_x))
    IN  [s EXCEPT !.registers =
            set_value(set_value(@, register_number_x, r.value),
                      15, IF ~r.overflowed THEN 1 ELSE 0)]

\* the assignment both shifts start with when the quirk is on
AssignShift(s, register_number_x, register_number_y) ==
    IF s.settings.assign_shift
    THEN set_value(s.registers, register_number_x, get_value(s.registers, register_number_y))
    ELSE s.registers

ShiftRightFlagBeforeAssign(s, register_number_x, register_number_y) ==
    LET regs == AssignShift(s, register_number_x, register_number_y)
        x_value == get_value(regs, register_number_x)
    IN  [s EXCEPT !.registers =
            set_value(set_value(regs, register_number_x, ShiftRightU8(x_value)),
                      15, IF get_value(s.registers, register_number_x) % 2 # 0
                          THEN 1 ELSE 0)]

shift_right(s, register_number_x, register_number_y) ==
    LET regs == AssignShift(s, register_number_x, register_number_y)
        x_value == get_value(regs, register_number_x)
    IN  [s EXCEPT !.registers =
            set_value(set_value(regs, register_number_x, ShiftRightU8(x_value)),
                      15, IF x_value % 2 # 0 THEN 1 ELSE 0)]

shift_left(s, register_number_x, register_number_y) ==
    LET regs == AssignShift(s, register_number_x, register_number_y)
        x_value == get_value(regs, register_number_x)
    IN  [s EXCEPT !.registers =
            set_value(set_value(regs, register_number_x, ShiftLeftU8(x_value)),
                      15, IF x_value \div 128 # 0 THEN 1 ELSE 0)]

\* `self.index_register += register_number as u16 + 1` when the quirk is on
BlockIncrementIgnoresQuirk(s, register_number) ==
    LET sum == add_u16(s.index_register, register_number + 1)
    IN  IF sum.overflowed /\ s.overflow_checks THEN Panic(s, OVERFLOW_ADD)
        ELSE [s EXCEPT !.index_register = sum.value]

BlockIncrement(s, register_number) ==
    LET sum == add_u16(s.index_register, register_number + 1)
    IN  IF ~s.settings.load_store_increment THEN s
        ELSE IF sum.overflowed /\ s.overflow_checks THEN Panic(s, OVERFLOW_ADD)
        ELSE [s EXCEPT !.index_register = sum.value]

RECURSIVE StoreLoop(_, _, _)
\* the loop of store_registers from `register` on
StoreLoop(s, register, register_number) ==
    LET address == add_u16(s.index_register, register)
    IN  IF register > register_number THEN s
        ELSE IF address.overflowed /\ s.overflow_checks THEN Panic(s, OVERFLOW_ADD)
        ELSE StoreLoop([s EXCEPT !.memory =
                            set_u8(@, address.value, get_value(s.registers, register))],
                       register + 1, register_number)

\* what the history `stored` keeps of a block store
Stored(s, register_number) ==
    [valid |-> TRUE, registers |-> s.registers, index_register |-> s.index_register,
     register_number |-> register_number]

StoreRegistersExclusive(s, register_number) ==
    LET written == [StoreLoop(s, 0, register_number - 1) EXCEPT
                        !.stored = Stored(s, register_number)]
    IN  IF written.panicked # "" THEN written ELSE BlockIncrement(written, register_number)

\* Chip8::store_registers; the history `stored` keeps what it stored
store_registers(s, register_number) ==
    LET written == [StoreLoop(s, 0, register_number) EXCEPT
                        !.stored = Stored(s, register_number)]
    IN  IF written.panicked # "" THEN written ELSE BlockIncrement(written, register_number)

RECURSIVE LoadLoop(_, _, _)
\* the loop of load_registers from `register` on
LoadLoop(s, register, register_number) ==
    LET address == add_u16(s.index_register, register)
    IN  IF register > register_number THEN s
        ELSE IF address.overflowed /\ s.overflow_checks THEN Panic(s, OVERFLOW_ADD)
        ELSE LoadLoop([s EXCEPT !.registers =
                           set_value(@, register, get_u8(s.memory, address.value))],
                      register + 1, register_number)

load_registers(s, register_number) ==
    LET loaded == LoadLoop(s, 0, register_number)
    IN  IF loaded.panicked # "" THEN loaded ELSE BlockIncrement(loaded, register_number)

BcdWritesNextCells(s, register_number) ==
    LET x_value == get_value(s.registers, register_number)
        m0 == set_u8(s.memory, s.index_register + 1, x_value \div 100)
        m1 == set_u8(m0, s.index_register + 2, (x_value \div 10) % 10)
        m2 == set_u8(m1, s.index_register + 3, x_value % 10)
    IN  [s EXCEPT !.memory = m2, !.stored = [@ EXCEPT !.valid = FALSE]]

binary_coded_decimal(s, register_number) ==
    LET x_value == get_value(s.registers, register_number)
        a1 == add_u16(s.index_register, 1)
        a2 == add_u16(s.index_register, 2)
        m0 == set_u8(s.memory, s.index_register, x_value \div 100)
        m1 == set_u8(m0, a1.value, (x_value \div 10) % 10)
        m2 == set_u8(m1, a2.value, x_value % 10)
    IN  IF (a1.overflowed \/ a2.overflowed) /\ s.overflow_checks THEN Panic(s, OVERFLOW_ADD)
        ELSE [s EXCEPT !.memory = m2, !.stored = [@ EXCEPT !.valid = FALSE]]

AddToIndexFlagsAtCeiling(s, register_number) ==
    LET sum == add_u16(s.index_register, get_value(s.registers, register_number))
    IN  IF sum.overflowed /\ s.overflow_checks THEN Panic(s, OVERFLOW_ADD)
        ELSE IF s.settings.add_to_index_overflow
        THEN [s EXCEPT !.index_register = sum.value,
                       !.registers = set_value(@, 15, IF sum.value >= INDEX_CEILING THEN 1 ELSE 0)]
        ELSE [s EXCEPT !.index_register = sum.value]

add_to_index(s, register_number) ==
    LET sum == add_u16(s.index_register, get_value(s.registers, register_number))
    IN  IF sum.overflowed /\ s.overflow_checks THEN Panic(s, OVERFLOW_ADD)
        ELSE IF s.settings.add_to_index_overflow
        THEN [s EXCEPT !.index_register = sum.value,
                       !.registers = set_value(@, 15, IF sum.value > INDEX_CEILING THEN 1 ELSE 0)]
        ELSE [s EXCEPT !.index_register = sum.value]

\* random_number is the byte `self.rng.gen()` returns
random(s, register_number, mask, random_number) ==
    [s EXCEPT !.registers = set_value(@, register_number, BitAnd(random_number, mask))]

get_delay_timer_value(s, register_number) ==
    [s EXCEPT !.registers = set_value(@, register_number, s.delay_timer)]

set_delay_timer_value(s, register_number) ==
    [s EXCEPT !.delay_timer = get_value(s.registers, register_number)]

set_sound_timer_value(s, register_number) ==
    [s EXCEPT !.sound_timer = get_value(s.registers, register_number)]

skip_if_key_pressed(s, register_number) ==
    LET r == is_key_pressed(s, get_value(s.registers, register_number))
    IN  IF r.panic THEN Panic(s, INDEX_OUT_OF_BOUNDS)
        ELSE IF r.pressed THEN SkipNext(s) ELSE s

skip_if_key_not_pressed(s, register_number) ==
    LET r == is_key_pressed(s, get_value(s.registers, register_number))
    IN  IF r.panic THEN Panic(s, INDEX_OUT_OF_BOUNDS)
        ELSE IF ~r.pressed THEN SkipNext(s) ELSE s

\* what the history `released` becomes when a key-wait runs: the releases
\* drained since the key-wait before it are what this one found, and a wait
\* is in progress from now on exactly if this one took no key
ReleasedAfterWait(rel, some) ==
    [pending |-> NO_KEY, latched |-> NO_KEY, overwritten |-> FALSE, waiting |-> ~some,
     found_pending |-> rel.pending, found_latched |-> rel.latched,
     found_overwritten |-> rel.overwritten, queued |-> rel.queued,
     latched_in_wait |-> FALSE, found_in_wait |-> rel.latched_in_wait]

get_key(s, register_number) ==
    LET r == keypad_last_pressed(s)
        t == [r.self EXCEPT !.released = ReleasedAfterWait(@, r.some)]
        back == sub_u16(t.program_counter, 2)
    IN  IF r.some THEN [t EXCEPT !.registers = set_value(@, register_number, r.key)]
        ELSE IF back.overflowed /\ t.overflow_checks THEN Panic(t, OVERFLOW_SUB)
        ELSE [t EXCEPT !.program_counter = back.value]

jump_with_offset(s, address, register_number) ==
    IF s.settings.jump_with_offset_add
    THEN [s EXCEPT !.program_counter = address + get_value(s.registers, register_number)]
    ELSE [s EXCEPT !.program_counter = address + get_value(s.registers, 0)]

UnknownMessageDecimal(s) ==
    Panic(s, "Unknown instruction " \o ToString(s.instruction))

\* the last arm of execute: panic!("Unknown instruction {}", instruction)
unknown_instruction(s) == Panic(s, "Unknown instruction " \o FmtInstruction(s.instruction))

(***************************************************************************)
(* Chip8::display.  Its loops run from one call of Chip8Display::set to    *)
(* the next in one atomic step: between two sends the interpreter touches  *)
(* nothing another thread can see.  draw holds the locals of the function  *)
(* between two steps: row, the BitIterator of the row (loaded, num), and   *)
(* flags_value; before is the state the instruction started from.          *)
(***************************************************************************)
DrawIdle ==
    [active |-> FALSE, x_start |-> 0, y_start |-> 0, sprite_height |-> 0, row |-> 0,
     loaded |-> FALSE, num |-> 0, flags_value |-> FALSE,
     before |-> [instruction |-> 0, program_counter |-> 0,
                 registers |-> [r \in Register |-> 0],
                 index_register |-> 0, buffer |-> {}]]

\* BitIterator::next: the offset of the highest set bit, which it clears
BitIteratorNext(num) ==
    LET value == leading_zeros(num, 8)
    IN  IF value < 8
        THEN [some |-> TRUE, item |-> value, num |-> BitXor(num, 128 \div (2 ^ value))]
        ELSE [some |-> FALSE, item |-> 0, num |-> num]

RECURSIVE NextSetWrapsColumns(_, _, _, _)
NextSetWrapsColumns(s, row, loaded, num) ==
    LET d == s.draw
        address == add_u16(s.index_register, row)
        bit == BitIteratorNext(num)
    IN  IF ~loaded THEN
            IF row >= d.sprite_height THEN [kind |-> "done"]
            ELSE IF d.y_start + row >= DISPLAY_HEIGHT THEN [kind |-> "done"]
            ELSE IF address.overflowed /\ s.overflow_checks THEN [kind |-> "panic"]
            ELSE NextSetWrapsColumns(s, row, TRUE, get_u8(s.memory, address.value))
        ELSE IF ~bit.some THEN NextSetWrapsColumns(s, row + 1, FALSE, 0)
        ELSE [kind |-> "set", px |-> (d.x_start + bit.item) % DISPLAY_WIDTH,
              py |-> d.y_start + row, row |-> row, num |-> bit.num]

RECURSIVE NextSet(_, _, _, _)
\* the loops of Chip8::display from the position (row, loaded, num) up to
\* the next call of Chip8Display::set, or to their end
NextSet(s, row, loaded, num) ==
    LET d == s.draw
        address == add_u16(s.index_register, row)
        bit == BitIteratorNext(num)
    IN  IF ~loaded THEN
            IF row >= d.sprite_height THEN [kind |-> "done"]
            ELSE IF d.y_start + row >= DISPLAY_HEIGHT THEN [kind |-> "done"]
            ELSE IF address.overflowed /\ s.overflow_checks THEN [kind |-> "panic"]
            ELSE NextSet(s, row, TRUE, get_u8(s.memory, address.value))
        ELSE IF ~bit.some THEN NextSet(s, row + 1, FALSE, 0)
        ELSE IF d.x_start + bit.item >= DISPLAY_WIDTH THEN NextSet(s, row + 1, FALSE, 0)
        ELSE [kind |-> "set", px |-> d.x_start + bit.item, py |-> d.y_start + row,
              row |-> row, num |-> bit.num]

DrawFinishAlwaysZero(s) ==
    Complete([s EXCEPT !.registers = set_value(@, 15, 0), !.draw = DrawIdle], s.draw.before)

\* the end of Chip8::display: `self.registers.set_value(0xF, flags_value as u8)`
DrawFinish(s) ==
    Complete([s EXCEPT !.registers = set_value(@, 15, IF s.draw.flags_value THEN 1 ELSE 0),
                       !.draw = DrawIdle],
             s.draw.before)

\* one step of the loops: up to and including the next set, and on to the
\* end of the function when no further set follows
DrawRun(s) ==
    LET d == s.draw
        here == NextSet(s, d.row, d.loaded, d.num)
        toggled == display_set(s, here.px, here.py)
        t == [toggled.self EXCEPT !.draw = [@ EXCEPT !.row = here.row, !.loaded = TRUE,
                                                     !.num = here.num,
                                                     !.flags_value = @ \/ toggled.existing]]
        ahead == NextSet(t, t.draw.row, t.draw.loaded, t.draw.num)
    IN  IF here.kind = "panic" THEN Panic(s, OVERFLOW_ADD)
        ELSE IF here.kind = "done" THEN DrawFinish(s)
        ELSE IF ahead.kind = "panic" THEN Panic(t, OVERFLOW_ADD)
        ELSE IF ahead.kind = "done" THEN DrawFinish(t)
        ELSE t

\* Chip8::display from its first line; before is the state at the fetch
display(s, x_register, y_register, sprite_height, before) ==
    DrawRun([s EXCEPT !.draw =
        [active |-> TRUE,
         x_start |-> get_value(s.registers, x_register) % DISPLAY_WIDTH,
         y_start |-> get_value(s.registers, y_register) % DISPLAY_HEIGHT,
         sprite_height |-> sprite_height, row |-> 0, loaded |-> FALSE, num |-> 0,
         flags_value |-> FALSE, before |-> before]])

(***************************************************************************)
(* Chip8::execute: the arm an instruction word selects.                    *)
(***************************************************************************)
Decode(value) ==
    CASE first(value) = 0 /\ nnn(value) = 224 -> "clear_display"
      [] first(value) = 6 -> "set_value"
      [] first(value) = 10 -> "set_index"
      [] first(value) = 13 -> "display"
      [] first(value) = 1 -> "jump"
      [] first(value) = 7 -> "add_value"
      [] first(value) = 3 -> "skip_if_equals_value"
      [] first(value) = 4 -> "skip_if_not_equals_value"
      [] first(value) = 5 -> "skip_if_equals_register"
      [] first(value) = 9 -> "skip_if_not_equals_register"
      [] first(value) = 2 -> "call_subroutine"
      [] first(value) = 0 /\ nnn(value) = 238 -> "return_subroutine"
      [] first(value) = 8 /\ n(value) = 0 -> "set_register"
      [] first(value) = 8 /\ n(value) = 1 -> "or_register"
      [] first(value) = 8 /\ n(value) = 2 -> "and_register"
      [] first(value) = 8 /\ n(value) = 3 -> "xor_register"
      [] first(value) = 8 /\ n(value) = 4 -> "add_register"
      [] first(value) = 8 /\ n(value) = 5 -> "sub_register_xy"
      [] first(value) = 8 /\ n(value) = 7 -> "sub_register_yx"
      [] first(value) = 8 /\ n(value) = 6 -> "shift_right"
      [] first(value) = 8 /\ n(value) = 14 -> "shift_left"
      [] first(value) = 15 /\ nn(value) = 85 -> "store_registers"
      [] first(value) = 15 /\ nn(value) = 101 -> "load_registers"
      [] first(value) = 15 /\ nn(value) = 51 -> "binary_coded_decimal"
      [] first(value) = 15 /\ nn(value) = 30 -> "add_to_index"
      [] first(value) = 12 -> "random"
      [] first(value) = 15 /\ nn(value) = 7 -> "get_delay_timer_value"
      [] first(value) = 15 /\ nn(value) = 21 -> "set_delay_timer_value"
      [] first(value) = 15 /\ nn(value) = 24 -> "set_sound_timer_value"
      [] first(value) = 14 /\ nn(value) = 158 -> "skip_if_key_pressed"
      [] first(value) = 14 /\ nn(value) = 161 -> "skip_if_key_not_pressed"
      [] first(value) = 15 /\ nn(value) = 10 -> "get_key"
      [] first(value) = 11 -> "jump_with_offset"
      [] OTHER -> "unknown"

(***************************************************************************)
(* The interpreter thread.  One action per arm of execute: a whole         *)
(* iteration of the loop of Chip8::run (pace, process, fetch, execute),    *)
(* taken when the word at the program counter selects the arm.             *)
(***************************************************************************)
\* time - last_decremented: below one period, one period, more than two
ElapsedSamples == {TIMER_DECREMENT - 1, TIMER_DECREMENT, 2 * TIMER_DECREMENT + 1}

LoopTopUntilStopped == panicked = "" /\ ~draw.active /\ ~drained /\ ~has_stopped

\* the interpreter thread is at the top of the loop of Chip8::run
AtLoopTop == panicked = "" /\ ~draw.active /\ ~drained

\* the word at the program counter selects the arm op of execute
Selected(op) == AtLoopTop /\ Decode(get_u16(memory, program_counter)) = op

\* the interpreter at the call of execute: after the timer check, the drain of
\* the events and the fetch of one iteration of the loop of Chip8::run
Fetched(since) == fetch(process(pace(Self, since)))

\* the end of the iteration: f is the interpreter at the call of execute,
\* after is what the handler made of it
Conclude(f, after) ==
    IF f.panicked # "" THEN f ELSE Complete(after, Snapshot(Self, f.instruction))

ClearDisplay ==
    /\ Selected("clear_display")
    /\ \E since \in ElapsedSamples :
          \E f \in {Fetched(since)} :
              Commit(Conclude(f, clear_display(f)))
    /\ UNCHANGED display_buffer

SetValue ==
    /\ Selected("set_value")
    /\ \E since \in ElapsedSamples :
          \E f \in {Fetched(since)} :
              Commit(Conclude(f, chip8_set_value(f, x(f.instruction), nn(f.instruction))))
    /\ UNCHANGED display_buffer

SetIndex ==
    /\ Selected("set_index")
    /\ \E since \in ElapsedSamples :
          \E f \in {Fetched(since)} :
              Commit(Conclude(f, set_index(f, nnn(f.instruction))))
    /\ UNCHANGED display_buffer

Display ==
    /\ Selected("display")
    /\ \E since \in ElapsedSamples :
          \E f \in {Fetched(since)} :
              Commit(IF f.panicked # "" THEN f
                     ELSE display(f, x(f.instruction), y(f.instruction), n(f.instruction),
                                  Snapshot(Self, f.instruction)))
    /\ UNCHANGED display_buffer

\* the loops of Chip8::display go on to their next call of Chip8Display::set
DrawStep ==
    /\ panicked = ""
    /\ draw.active
    /\ Commit(DrawRun(Self))
    /\ UNCHANGED display_buffer

Jump ==
    /\ Selected("jump")
    /\ \E since \in ElapsedSamples :
          \E f \in {Fetched(since)} :
              Commit(Conclude(f, jump(f, nnn(f.instruction))))
    /\ UNCHANGED display_buffer

AddValue ==
    /\ Selected("add_value")
    /\ \E since \in ElapsedSamples :
          \E f \in {Fetched(since)} :
              Commit(Conclude(f, add_value(f, x(f.instruction), nn(f.instruction))))
    /\ UNCHANGED display_buffer

SkipIfEqualsValue ==
    /\ Selected("skip_if_equals_value")
    /\ \E since \in ElapsedSamples :
          \E f \in {Fetched(since)} :
              Commit(Conclude(f, skip_if_equals_value(f, x(f.instruction), nn(f.instruction))))
    /\ UNCHANGED display_buffer

SkipIfNotEqualsValue ==
    /\ Selected("skip_if_not_equals_value")
    /\ \E since \in ElapsedSamples :
          \E f \in {Fetched(since)} :
              Commit(Conclude(f, skip_if_not_equals_value(f, x(f.instruction), nn(f.instruction))))
    /\ UNCHANGED display_buffer

SkipIfEqualsRegister ==
    /\ Selected("skip_if_equals_register")
    /\ \E since \in ElapsedSamples :
          \E f \in {Fetched(since)} :
              Commit(Conclude(f, skip_if_equals_register(f, x(f.instruction), y(f.instruction))))
    /\ UNCHANGED display_buffer

SkipIfNotEqualsRegister ==
    /\ Selected("skip_if_not_equals_register")
    /\ \E since \in ElapsedSamples :
          \E f \in {Fetched(since)} :
              Commit(Conclude(f, skip_if_not_equals_register(f, x(f.instruction), y(f.instruction))))
    /\ UNCHANGED display_buffer

CallSubroutine ==
    /\ Selected("call_subroutine")
    /\ \E since \in ElapsedSamples :
          \E f \in {Fetched(since)} :
              Commit(Conclude(f, call_subroutine(f, nnn(f.instruction))))
    /\ UNCHANGED display_buffer

ReturnSubroutine ==
    /\ Selected("return_subroutine")
    /\ \E since \in ElapsedSamples :
          \E f \in {Fetched(since)} :
              Commit(Conclude(f, return_subroutine(f)))
    /\ UNCHANGED display_buffer

SetRegister ==
    /\ Selected("set_register")
    /\ \E since \in ElapsedSamples :
          \E f \in {Fetched(since)} :
              Commit(Conclude(f, set_register(f, x(f.instruction), y(f.instruction))))
    /\ UNCHANGED display_buffer

OrRegister ==
    /\ Selected("or_register")
    /\ \E since \in ElapsedSamples :
          \E f \in {Fetched(since)} :
              Commit(Conclude(f, or_register(f, x(f.instruction), y(f.instruction))))
    /\ UNCHANGED display_buffer

AndRegister ==
    /\ Selected("and_register")
    /\ \E since \in ElapsedSamples :
          \E f \in {Fetched(since)} :
              Commit(Conclude(f, and_register(f, x(f.instruction), y(f.instruction))))
    /\ UNCHANGED display_buffer

XorRegister ==
    /\ Selected("xor_register")
    /\ \E since \in ElapsedSamples :
          \E f \in {Fetched(since)} :
              Commit(Conclude(f, xor_register(f, x(f.instruction), y(f.instruction))))
    /\ UNCHANGED display_buffer

AddRegister ==
    /\ Selected("add_register")
    /\ \E since \in ElapsedSamples :
          \E f \in {Fetched(since)} :
              Commit(Conclude(f, add_register(f, x(f.instruction), y(f.instruction))))
    /\ UNCHANGED display_buffer

SubRegisterXY ==
    /\ Selected("sub_register_xy")
    /\ \E since \in ElapsedSamples :
          \E f \in {Fetched(since)} :
              Commit(Conclude(f, sub_register_xy(f, x(f.instruction), y(f.instruction))))
    /\ UNCHANGED display_buffer

SubRegisterYX ==
    /\ Selected("sub_register_yx")
    /\ \E since \in ElapsedSamples :
          \E f \in {Fetched(since)} :
              Commit(Conclude(f, sub_register_yx(f, x(f.instruction), y(f.instruction))))
    /\ UNCHANGED display_buffer

ShiftRight ==
    /\ Selected("shift_right")
    /\ \E since \in ElapsedSamples :
          \E f \in {Fetched(since)} :
              Commit(Conclude(f, shift_right(f, x(f.instruction), y(f.instruction))))
    /\ UNCHANGED display_buffer

ShiftLeft ==
    /\ Selected("shift_left")
    /\ \E since \in ElapsedSamples :
          \E f \in {Fetched(since)} :
              Commit(Conclude(f, shift_left(f, x(f.instruction), y(f.instruction))))
    /\ UNCHANGED display_buffer

StoreRegisters ==
    /\ Selected("store_registers")
    /\ \E since \in ElapsedSamples :
          \E f \in {Fetched(since)} :
              Commit(Conclude(f, store_registers(f, x(f.instruction))))
    /\ UNCHANGED display_buffer

LoadRegisters ==
    /\ Selected("load_registers")
    /\ \E since \in ElapsedSamples :
          \E f \in {Fetched(since)} :
              Commit(Conclude(f, load_registers(f, x(f.instruction))))
    /\ UNCHANGED display_buffer

BinaryCodedDecimal ==
    /\ Selected("binary_coded_decimal")
    /\ \E since \in ElapsedSamples :
          \E f \in {Fetched(since)} :
              Commit(Conclude(f, binary_coded_decimal(f, x(f.instruction))))
    /\ UNCHANGED display_buffer

AddToIndex ==
    /\ Selected("add_to_index")
    /\ \E since \in ElapsedSamples :
          \E f \in {Fetched(since)} :
              Commit(Conclude(f, add_to_index(f, x(f.instruction))))
    /\ UNCHANGED display_buffer

Random ==
    /\ Selected("random")
    /\ \E since \in ElapsedSamples, random_number \in Byte :
          \E f \in {Fetched(since)} :
              Commit(Conclude(f, random(f, x(f.instruction), nn(f.instruction), random_number)))
    /\ UNCHANGED display_buffer

GetDelayTimerValue ==
    /\ Selected("get_delay_timer_value")
    /\ \E since \in ElapsedSamples :
          \E f \in {Fetched(since)} :
              Commit(Conclude(f, get_delay_timer_value(f, x(f.instruction))))
    /\ UNCHANGED display_buffer

SetDelayTimerValue ==
    /\ Selected("set_delay_timer_value")
    /\ \E since \in ElapsedSamples :
          \E f \in {Fetched(since)} :
              Commit(Conclude(f, set_delay_timer_value(f, x(f.instruction))))
    /\ UNCHANGED display_buffer

SetSoundTimerValue ==
    /\ Selected("set_sound_timer_value")
    /\ \E since \in ElapsedSamples :
          \E f \in {Fetched(since)} :
              Commit(Conclude(f, set_sound_timer_value(f, x(f.instruction))))
    /\ UNCHANGED display_buffer

SkipIfKeyPressed ==
    /\ Selected("skip_if_key_pressed")
    /\ \E since \in ElapsedSamples :
          \E f \in {Fetched(since)} :
              Commit(Conclude(f, skip_if_key_pressed(f, x(f.instruction))))
    /\ UNCHANGED display_buffer

SkipIfKeyNotPressed ==
    /\ Selected("skip_if_key_not_pressed")
    /\ \E since \in ElapsedSamples :
          \E f \in {Fetched(since)} :
              Commit(Conclude(f, skip_if_key_not_pressed(f, x(f.instruction))))
    /\ UNCHANGED display_buffer

GetKey ==
    /\ Selected("get_key")
    /\ \E since \in ElapsedSamples :
          \E f \in {Fetched(since)} :
              Commit(Conclude(f, get_key(f, x(f.instruction))))
    /\ UNCHANGED display_buffer

\* the iteration in two steps, the presentation thread running between them:
\* the timer check and `self.keypad.process()`, which leave the interpreter
\* before `self.fetch()`
Process ==
    /\ AtLoopTop
    /\ \E since \in ElapsedSamples :
          \E t \in {process(pace(Self, since))} :
              Commit([t EXCEPT !.drained = TRUE])
    /\ UNCHANGED display_buffer

\* the interpreter is before `self.fetch()`, the word at the program counter
\* selecting the arm op of execute
SelectedAfterProcess(op) ==
    panicked = "" /\ drained /\ Decode(get_u16(memory, program_counter)) = op

\* the interpreter at the call of execute, from where Process left it
FetchedAfterProcess == fetch([Self EXCEPT !.drained = FALSE])

\* `self.fetch()` and `self.execute(instruction)` of a jump and of a key-wait
JumpAfterProcess ==
    /\ SelectedAfterProcess("jump")
    /\ \E f \in {FetchedAfterProcess} :
          Commit(Conclude(f, jump(f, nnn(f.instruction))))
    /\ UNCHANGED display_buffer

GetKeyAfterProcess ==
    /\ SelectedAfterProcess("get_key")
    /\ \E f \in {FetchedAfterProcess} :
          Commit(Conclude(f, get_key(f, x(f.instruction))))
    /\ UNCHANGED display_buffer

JumpWithOffset ==
    /\ Selected("jump_with_offset")
    /\ \E since \in ElapsedSamples :
          \E f \in {Fetched(since)} :
              Commit(Conclude(f, jump_with_offset(f, nnn(f.instruction), x(f.instruction))))
    /\ UNCHANGED display_buffer

UnknownInstruction ==
    /\ Selected("unknown")
    /\ \E since \in ElapsedSamples :
          \E f \in {Fetched(since)} :
              Commit(Conclude(f, unknown_instruction(f)))
    /\ UNCHANGED display_buffer

Interpreter ==
    \/ ClearDisplay \/ SetValue \/ SetIndex \/ Display \/ DrawStep \/ Jump \/ AddValue
    \/ SkipIfEqualsValue \/ SkipIfNotEqualsValue \/ SkipIfEqualsRegister
    \/ SkipIfNotEqualsRegister \/ CallSubroutine \/ ReturnSubroutine \/ SetRegister
    \/ OrRegister \/ AndRegister \/ XorRegister \/ AddRegister \/ SubRegisterXY
    \/ SubRegisterYX \/ ShiftRight \/ ShiftLeft \/ StoreRegisters \/ LoadRegisters
    \/ BinaryCodedDecimal \/ AddToIndex \/ Random \/ GetDelayTimerValue
    \/ SetDelayTimerValue \/ SetSoundTimerValue \/ SkipIfKeyPressed
    \/ SkipIfKeyNotPressed \/ GetKey \/ JumpWithOffset \/ UnknownInstruction

(***************************************************************************)
(* The presentation thread, MyApp::update.  Its sends fail once the        *)
(* interpreter thread has panicked and dropped its receiver, and the       *)
(* unwrap of the failed send ends the program.                             *)
(***************************************************************************)
Keys == 0 .. MaxKey

\* `self.event_sender.send(event).unwrap()`
Send(event) ==
    /\ event_channel' = Append(event_channel, event)
    /\ released' = [released EXCEPT !.queued = Append(@, released.waiting)]
    /\ UNCHANGED <<settings, overflow_checks, memory, buffer, display_channel, stack,
                   registers, program_counter, index_register, has_stopped, key_states,
                   last_pressed, delay_timer, sound_timer, display_buffer, instruction,
                   elapsed, panicked, draw, drained, hist, stored, calls>>

\* the interpreter holds its receiver, and the model lets one more event wait
CanSend == panicked = "" /\ Len(event_channel) < MaxEventQueue

SendKeyDown ==
    /\ CanSend
    /\ \E key \in Keys : Send(<<"KeyDown", key>>)

SendKeyUp ==
    /\ CanSend
    /\ \E key \in Keys : Send(<<"KeyUp", key>>)

SendStop ==
    /\ CanSend
    /\ Send(<<"Stop">>)

\* one turn of `while let Ok(instruction) = self.display_receiver.try_recv()`
Receive ==
    /\ display_channel # <<>>
    /\ display_buffer' = Replay(display_buffer, Head(display_channel))
    /\ display_channel' = Tail(display_channel)
    /\ UNCHANGED <<settings, overflow_checks, memory, buffer, stack, registers,
                   program_counter, index_register, has_stopped, key_states,
                   last_pressed, event_channel, delay_timer, sound_timer, instruction,
                   elapsed, panicked, draw, drained, hist, stored, released, calls>>

\* the sends of the key-latch specification, whose queue holds a burst of events
CanSendBurst == panicked = "" /\ Len(event_channel) < MaxBurst

BurstKeyDown ==
    /\ CanSendBurst
    /\ \E key \in Keys : Send(<<"KeyDown", key>>)

BurstKeyUp ==
    /\ CanSendBurst
    /\ \E key \in Keys : Send(<<"KeyUp", key>>)

Presentation == SendKeyDown \/ SendKeyUp \/ SendStop \/ Receive

(***************************************************************************)
(* Programs.  A program image is a sequence of bytes; the interpreter is   *)
(* built from it by Chip8::new.  The images below are assembled from       *)
(* instruction words, word i (from 0) lying at the address WordAt(i).      *)
(***************************************************************************)
Op(f, a, b, c) == f * 4096 + a * 256 + b * 16 + c

WordAt(i) == PROGRAM_START + 2 * i

JumpTo(i) == 4096 + WordAt(i)

Image(words) ==
    [i \in 1 .. 2 * Len(words) |->
        IF i % 2 = 1 THEN words[(i + 1) \div 2] \div 256 ELSE words[i \div 2] % 256]

\* impl Default for Settings
DefaultSettings ==
    [assign_shift |-> FALSE, load_store_increment |-> FALSE,
     add_to_index_overflow |-> TRUE, jump_with_offset_add |-> FALSE]

\* every arm of execute but the last, once; the key-wait comes last
TourProgram ==
    Image(<<Op(0, 0, 14, 0),            \*  0 clear_display
            Op(6, 0, 0, 5),             \*  1 V0 = 5
            Op(10, 0, 0, 0) + WordAt(38), \*  2 I = sprite
            Op(13, 0, 0, 1),            \*  3 display
            Op(7, 0, 0, 1),             \*  4 V0 += 1
            Op(3, 0, 0, 6),             \*  5 skip: V0 = 6
            0,
            Op(4, 0, 0, 6),             \*  7 no skip
            Op(5, 0, 1, 0),             \*  8 no skip: V0 # V1
            Op(9, 0, 1, 0),             \*  9 skip
            0,
            Op(2, 0, 0, 0) + WordAt(37), \* 11 call
            Op(8, 1, 0, 0), Op(8, 1, 0, 1), Op(8, 1, 0, 2), Op(8, 1, 0, 3),
            Op(8, 1, 0, 4), Op(8, 1, 0, 5), Op(8, 1, 0, 7), Op(8, 1, 0, 6),
            Op(8, 1, 0, 14),            \* 12 .. 20 the register operations
            Op(10, 3, 0, 0),            \* 21 I = 0x300
            Op(15, 1, 5, 5),            \* 22 store_registers
            Op(15, 1, 6, 5),            \* 23 load_registers
            Op(15, 0, 3, 3),            \* 24 binary_coded_decimal
            Op(15, 0, 1, 14),           \* 25 add_to_index
            Op(12, 1, 0, 1),            \* 26 random, mask 1
            Op(15, 0, 0, 7),            \* 27 V0 = delay timer
            Op(15, 0, 1, 5),            \* 28 delay timer = V0
            Op(15, 0, 1, 8),            \* 29 sound timer = V0
            Op(14, 0, 9, 14),           \* 30 skip if key V0 pressed
            Op(14, 0, 10, 1),           \* 31 skip if key V0 not pressed
            Op(6, 0, 0, 0),             \* 32
            Op(11, 0, 0, 0) + WordAt(35), \* 33 jump_with_offset, V0 = 0
            0,
            Op(15, 2, 0, 10),           \* 35 get_key
            JumpTo(36),                 \* 36
            Op(0, 0, 14, 14),           \* 37 return_subroutine
            Op(12, 0, 0, 0)>>)          \* 38 the sprite: two pixels

\* a return on an empty stack: at once, and after a balanced call and return
ReturnPrograms ==
    {Image(<<Op(0, 0, 14, 14)>>),
     Image(<<Op(2, 0, 0, 0) + WordAt(2), Op(0, 0, 14, 14), Op(0, 0, 14, 14)>>)}

\* words no arm of execute matches
UnknownWords == {0, 225, 514, 32776, 57503, 61695, 65535}

\* an unknown word at once, and after the registers, the index register,
\* the stack, the memory and the display were written
UnknownPrograms ==
    {Image(<<w>>) : w \in UnknownWords} \cup
    {Image(<<Op(6, 1, 0, 7), Op(10, 3, 0, 0), Op(15, 1, 5, 5),
             Op(10, 0, 0, 0) + WordAt(7), Op(13, 0, 0, 1),
             Op(2, 0, 0, 0) + WordAt(6), w, Op(8, 0, 0, 0)>>) : w \in UnknownWords}

\* the operand values of the arithmetic programs: around 0, 128 and 255
Operands ==
    (0 .. MaxOperand) \cup ((128 - MaxOperand) .. (127 + MaxOperand))
        \cup ((255 - MaxOperand) .. 255)

\* the registers X and Y of the arithmetic programs
RegisterPairs == {<<0, 1>>, <<15, 0>>, <<0, 15>>, <<2, 2>>}

\* VX = a, VY = b, then 8XY4, 8XY5 or 8XY7
ArithmeticPrograms ==
    {Image(<<Op(6, p[1], 0, 0) + a, Op(6, p[2], 0, 0) + b, Op(8, p[1], p[2], k),
             JumpTo(3)>>) :
        p \in RegisterPairs, a \in Operands, b \in Operands, k \in {4, 5, 7}}

BlockRegisters == (0 .. MaxBlockX) \cup {15}

\* index values of the block transfers: below the program, on it, above it,
\* and the last address
BlockIndexes == {0, PROGRAM_START, 768, MEMORY_SIZE - 1}

BlockValue(k) == (k * 16 + 5) % U8

\* V0..VX = values, I = index, FX55; I = 0x800 (zeros), FX65; I = index, FX65
BlockProgram(xr, index) ==
    Image([k \in 1 .. (xr + 1) |-> Op(6, k - 1, 0, 0) + BlockValue(k - 1)] \o
          <<Op(10, 0, 0, 0) + index, Op(15, xr, 5, 5), Op(10, 8, 0, 0), Op(15, xr, 6, 5),
            Op(10, 0, 0, 0) + index, Op(15, xr, 6, 5), JumpTo(xr + 7)>>)

BlockPrograms == {BlockProgram(xr, index) : xr \in BlockRegisters, index \in BlockIndexes}

\* sprites of two rows: all columns and both ends; no pixel; a mixed one; the
\* last column alone, which is past the edge from the start column 57 on
Sprites == {<<255, 129>>, <<0, 0>>, <<165, 24>>, <<1, 1>>}

\* start columns: both edges, and a value the draw reduces modulo 64
Columns == (0 .. MaxColumn) \cup ((63 - MaxColumn) .. 63) \cup {126}

\* start rows: the top, the last row, and a value the draw reduces modulo 32
Rows == {0, 31, 33}

\* V0 = vx, V1 = vy, V2 = vx + dx; the sprite drawn at (V2, V1) with height
\* bg (the prior content), then twice at (V0, V1) with height h, then a clear
DrawProgram(vx, vy, dx, bg, h, sprite) ==
    Image(<<Op(6, 0, 0, 0) + vx, Op(6, 1, 0, 0) + vy, Op(6, 2, 0, 0) + ((vx + dx) % U8),
            Op(10, 0, 0, 0) + WordAt(9), Op(13, 2, 1, bg), Op(13, 0, 1, h),
            Op(13, 0, 1, h), Op(0, 0, 14, 0), JumpTo(8),
            sprite[1] * 256 + sprite[2]>>)

DrawPrograms ==
    {DrawProgram(vx, vy, dx, bg, h, sprite) :
        vx \in Columns, vy \in Rows, dx \in {0, 1}, bg \in {0, 2}, h \in {1, 2},
        sprite \in Sprites}

\* the start column is VF, which the first draw overwrites
DrawFromFlagProgram ==
    Image(<<Op(6, 15, 0, 0) + 3, Op(10, 0, 0, 0) + WordAt(5), Op(13, 15, 1, 1),
            Op(13, 15, 1, 1), JumpTo(4), Op(8, 0, 0, 0)>>)

\* V0 = 0x80, I = 0xFFF, then I = I + V0 in a loop: I passes 0xFFFF at the
\* 481st addition
IndexOverflowProgram ==
    Image(<<Op(6, 0, 8, 0), Op(10, 15, 15, 15), Op(15, 0, 1, 14), JumpTo(2)>>)

\* accesses at the top of the address space, I being 0xFFF: the digits of
\* V0 = 255 stored, three registers loaded, two stored, a sprite of two rows
\* drawn, and a jump to 0xFFF + V0, where the fetch finds no instruction
AddressProgram ==
    Image(<<Op(6, 0, 15, 15),           \* 0 V0 = 255
            Op(10, 15, 15, 15),         \* 1 I = 0xFFF
            Op(15, 0, 3, 3),            \* 2 digits of V0 at I, I+1, I+2
            Op(15, 2, 6, 5),            \* 3 V0..V2 = cells I..I+2
            Op(6, 1, 8, 1),             \* 4 V1 = 0x81
            Op(15, 1, 5, 5),            \* 5 cells I, I+1 = V0, V1
            Op(13, 2, 3, 2),            \* 6 draw the rows at I, I+1 at (V2, V3)
            Op(11, 15, 15, 15)>>)       \* 7 jump to 0xFFF + V0

\* index values of the additions to the index register: 0xFFF is reached
\* from 0xF00 by adding 255 and from 0xFFE by adding 1, and passed from 0xFFF
IndexValues == {3840, INDEX_CEILING - 1, INDEX_CEILING}

\* VF = 7, VX = a, I = index, then FX1E once
IndexProgram(xr, a, index) ==
    Image(<<Op(6, 15, 0, 7), Op(6, xr, 0, 0) + a, Op(10, 0, 0, 0) + index,
            Op(15, xr, 1, 14), JumpTo(4)>>)

IndexPrograms ==
    {IndexProgram(xr, a, index) : xr \in {0, 15}, a \in Operands, index \in IndexValues}

\* VX = a, VY = 255 - a (every bit of it differs from the bit of a), then the
\* shift right (n = 6) or left (n = 14); Y is written last where X = Y
ShiftProgram(p, a, k) ==
    Image(<<Op(6, p[1], 0, 0) + a, Op(6, p[2], 0, 0) + (255 - a), Op(8, p[1], p[2], k),
            JumpTo(3)>>)

\* every 8-bit value in register X and in register Y
ShiftPrograms ==
    {ShiftProgram(p, a, k) : p \in RegisterPairs, a \in Byte, k \in {6, 14}}

\* subroutines nested d deep: the main program (words 0 .. 2) calls the
\* first subroutine twice and stops in a jump to itself; subroutine k (words
\* 3k .. 3k + 2) calls subroutine k + 1 twice and returns; subroutine d (word
\* 3d) returns at once
CallProgram(d) ==
    Image([i \in 1 .. (3 * d + 1) |->
              LET k == (i - 1) \div 3
                  j == (i - 1) % 3
              IN  IF i = 3 * d + 1 THEN Op(0, 0, 14, 14)
                  ELSE IF j < 2 THEN Op(2, 0, 0, 0) + WordAt(3 * (k + 1))
                  ELSE IF k = 0 THEN JumpTo(2)
                  ELSE Op(0, 0, 14, 14)])

CallPrograms == {CallProgram(d) : d \in 1 .. MaxNesting}

\* V0 = 3, both timers = V0, then V0 = delay timer in a loop
TimerProgram ==
    Image(<<Op(6, 0, 0, 3), Op(15, 0, 1, 5), Op(15, 0, 1, 8), Op(15, 0, 0, 7),
            JumpTo(3)>>)

\* a key-wait in a loop; and one that other instructions precede and follow
KeyLoopProgram == Image(<<Op(15, 1, 0, 10), JumpTo(0)>>)

KeyPrograms ==
    {KeyLoopProgram,
     Image(<<Op(6, 1, 0, 5), Op(15, 1, 0, 10), Op(7, 1, 0, 1), JumpTo(1)>>)}

\* V0 = vx; a draw at (V0, V1), a clear and two more draws of a sprite of
\* three pixels
FeedProgram(vx) ==
    Image(<<Op(6, 0, 0, 0) + vx, Op(10, 0, 0, 0) + WordAt(7), Op(13, 0, 1, 2),
            Op(0, 0, 14, 0), Op(13, 0, 1, 2), Op(13, 1, 1, 1), JumpTo(6),
            192 * 256 + 128>>)

FeedPrograms == {FeedProgram(vx) : vx \in Columns}

(***************************************************************************)
(* The initial states: Chip8::new and MyApp::new on a program, the quirk   *)
(* settings and the build profile.                                         *)
(***************************************************************************)
Start(program, quirks, checks) ==
    /\ settings = quirks
    /\ overflow_checks = checks
    /\ memory = MemoryNew(program)
    /\ buffer = {}
    /\ display_channel = <<>>
    /\ stack = <<>>
    /\ registers = [r \in Register |-> 0]
    /\ program_counter = PROGRAM_START
    /\ index_register = 0
    /\ has_stopped = FALSE
    /\ key_states = [k \in 0 .. 15 |-> FALSE]
    /\ last_pressed = <<"NotWaiting">>
    /\ event_channel = <<>>
    /\ delay_timer = 0
    /\ sound_timer = 0
    /\ display_buffer = {}
    /\ instruction = 0
    /\ elapsed = 0
    /\ panicked = ""
    /\ draw = DrawIdle
    /\ drained = FALSE
    /\ hist = <<>>
    /\ stored = [valid |-> FALSE, registers |-> [r \in Register |-> 0],
                 index_register |-> 0, register_number |-> 0]
    /\ released = [pending |-> NO_KEY, latched |-> NO_KEY, overwritten |-> FALSE,
                   waiting |-> FALSE, found_pending |-> NO_KEY,
                   found_latched |-> NO_KEY, found_overwritten |-> FALSE,
                   queued |-> <<>>, latched_in_wait |-> FALSE, found_in_wait |-> FALSE]
    /\ calls = [calls |-> 0, returns |-> 0, sites |-> <<>>]

\* the whole program: both threads
Init ==
    \E program \in {TourProgram, Image(<<0>>)} \cup FeedPrograms \cup KeyPrograms,
       checks \in BOOLEAN :
        Start(program, DefaultSettings, checks)

Next == Interpreter \/ Presentation

Spec == Init /\ [][Next]_vars

\* the interpreter thread on the key-wait programs, which run no other
\* instruction than these four, and the key events of the presentation thread;
\* nothing overflows in these programs (the rewind of a key-wait starts from
\* 0x202 at least), so that both builds run them alike
InitKeypad ==
    \E program \in KeyPrograms : Start(program, DefaultSettings, FALSE)

NextKeypad ==
    \/ SetValue
    \/ AddValue
    \/ Jump
    \/ GetKey
    \/ SendKeyDown
    \/ SendKeyUp
    \/ SendStop

SpecKeypad == InitKeypad /\ [][NextKeypad]_vars

\* the interpreter thread on the key-wait loop, and a presentation thread that
\* sends MaxBurst key events before the interpreter drains them
InitLatch ==
    Start(KeyLoopProgram, DefaultSettings, FALSE)

NextLatch ==
    \/ Jump
    \/ GetKey
    \/ BurstKeyDown
    \/ BurstKeyUp

SpecLatch == InitLatch /\ [][NextLatch]_vars

\* the interpreter thread on the key-wait loop and the releases of the
\* presentation thread.  The interpreter thread runs `loop` on a thread of its
\* own (main.rs:32-36) and no step of an iteration waits for another thread:
\* try_recv returns when the queue is empty and the sends to the unbounded
\* display channel do not wait; a scheduled thread therefore takes its next
\* iteration, which is weak fairness of the iterations.
NextWait ==
    \/ Jump
    \/ GetKey
    \/ SendKeyUp

SpecWait == InitLatch /\ [][NextWait]_vars /\ WF_vars(Jump \/ GetKey)

\* the interpreter thread on the key-wait loop, the releases and the Stop of
\* the presentation thread
NextStop ==
    \/ Jump
    \/ GetKey
    \/ SendKeyUp
    \/ SendStop

SpecStop == InitLatch /\ [][NextStop]_vars

\* the interpreter thread on the shift programs, the assign-before-shift quirk
\* off and on
InitShift ==
    \E program \in ShiftPrograms, assign \in BOOLEAN, checks \in BOOLEAN :
        Start(program, [DefaultSettings EXCEPT !.assign_shift = assign], checks)

NextShift ==
    \/ SetValue
    \/ ShiftRight
    \/ ShiftLeft
    \/ Jump

SpecShift == InitShift /\ [][NextShift]_vars

\* the interpreter thread on the key-wait loop, its iterations in two steps,
\* and the releases of the presentation thread, which are sent at any time:
\* also between the drain of the events and the execution of the key-wait
NextRace ==
    \/ Process
    \/ JumpAfterProcess
    \/ GetKeyAfterProcess
    \/ SendKeyUp

SpecRace == InitLatch /\ [][NextRace]_vars

\* the interpreter thread and the replay of the display feed
InitFeed ==
    \E program \in {TourProgram, Image(<<0>>)} \cup FeedPrograms, checks \in BOOLEAN :
        Start(program, DefaultSettings, checks)

SpecFeed == InitFeed /\ [][Interpreter \/ Receive]_vars

\* the interpreter thread alone, nothing sent to it and nothing received from it
InitCpu ==
    \/ \E program \in {TourProgram, DrawFromFlagProgram, TimerProgram,
                        IndexOverflowProgram, AddressProgram} \cup ReturnPrograms
                        \cup CallPrograms
                        \cup UnknownPrograms \cup ArithmeticPrograms \cup DrawPrograms,
          checks \in BOOLEAN :
           Start(program, DefaultSettings, checks)
    \/ \E program \in BlockPrograms, increment \in BOOLEAN, checks \in BOOLEAN :
           Start(program, [DefaultSettings EXCEPT !.load_store_increment = increment],
                 checks)
    \/ \E program \in IndexPrograms, flagged \in BOOLEAN, checks \in BOOLEAN :
           Start(program, [DefaultSettings EXCEPT !.add_to_index_overflow = flagged],
                 checks)

SpecCpu == InitCpu /\ [][Interpreter]_vars

(***************************************************************************)
(* The properties.                                                         *)
(***************************************************************************)
\* the instruction completed last, and the one before it
Last == hist[1]
Previous == hist[2]

\* the key-wait took the key: register X holds it, and the program counter is
\* at the instruction after the key-wait
KeyTaken(key) ==
    /\ registers' = set_value(registers, x(instruction'), key)
    /\ program_counter' = program_counter + 2

\* the key-wait polls: the program counter is back at the key-wait and no
\* register has changed
KeyPolled ==
    /\ program_counter' = program_counter
    /\ registers' = registers

C2_FeedReplay == ReplayAll(display_buffer, display_channel) = buffer

\* C2: the consumer is behind the core, with a Clear and a later Set queued
C2_Witness ==
    /\ display_buffer # {}
    /\ buffer # {}
    /\ display_buffer # buffer
    /\ \E i, j \in DOMAIN display_channel :
           /\ i < j
           /\ display_channel[i] = <<"Clear">>
           /\ display_channel[j][1] = "Set"

\* C3: a return executed while the call stack is empty is fatal: the
\* interpreter thread panics on the missing stack entry instead of taking a
\* program counter from it, and an interpreter that has panicked takes no
\* further step: it fetches no further instruction.
C3_ReturnOnEmptyStack ==
    [][/\ panicked = ""
       /\ (ReturnSubroutine /\ stack = <<>>) =>
              /\ panicked' = UNWRAP_NONE
              /\ stack' = <<>>]_vars

\* C3: a return on the empty stack has failed, after a call and the return
\* from it
C3_Witness ==
    /\ panicked = UNWRAP_NONE
    /\ Decode(instruction) = "return_subroutine"
    /\ stack = <<>>
    /\ Len(hist) = 2
    /\ Decode(Last.instruction) = "return_subroutine"
    /\ Decode(Previous.instruction) = "call_subroutine"

\* the text contains the part
Mentions(text, part) ==
    \E i \in 1 .. (Len(text) - Len(part) + 1) : SubSeq(text, i, i + Len(part) - 1) = part

RECURSIVE HexValue(_)
\* the number a text of lower-case hexadecimal digits denotes, -1 if it is none
HexValue(text) ==
    IF text = "" THEN 0
    ELSE LET digits == "0123456789abcdef"
             last == SubSeq(text, Len(text), Len(text))
             front == HexValue(SubSeq(text, 1, Len(text) - 1))
         IN  IF front = -1 \/ ~Mentions(digits, last) THEN -1
             ELSE 16 * front
                    + (CHOOSE d \in 0 .. 15 : SubSeq(digits, d + 1, d + 1) = last)

\* the panic message identifies the instruction word: it ends with 0x and the
\* four hexadecimal digits of the word
IdentifiesWord(message, word) ==
    /\ Len(message) >= 6
    /\ SubSeq(message, Len(message) - 5, Len(message) - 4) = "0x"
    /\ HexValue(SubSeq(message, Len(message) - 3, Len(message))) = word

\* the panic message identifies the address: it contains the address in
\* decimal or in hexadecimal digits
IdentifiesAddress(message, address) ==
    \/ Mentions(message, ToString(address))
    \/ \E width \in 1 .. 4 :
          /\ address < 16 ^ width
          /\ Mentions(message, SubSeq(FmtInstruction(address), 7 - width, 6))

\* the unknown instruction has left the registers, the index register, the
\* memory, the stack and the display as they were
UnknownChangesNothing ==
    /\ registers' = registers
    /\ index_register' = index_register
    /\ memory' = memory
    /\ stack' = stack
    /\ buffer' = buffer
    /\ display_channel' = display_channel

StartColumn(h) == get_value(h.registers, x(h.instruction)) % DISPLAY_WIDTH
StartRow(h) == get_value(h.registers, y(h.instruction)) % DISPLAY_HEIGHT

\* the two instructions completed last are draws of the same sprite bytes (the
\* same index register; no draw writes the memory) with the same height at
\* the same start position, and the second has returned
TwoIdenticalDraws ==
    /\ AtLoopTop
    /\ Len(hist) = 2
    /\ Decode(Previous.instruction) = "display"
    /\ Decode(Last.instruction) = "display"
    /\ n(Previous.instruction) = n(Last.instruction)
    /\ Previous.index_register = Last.index_register
    /\ StartColumn(Previous) = StartColumn(Last)
    /\ StartRow(Previous) = StartRow(Last)

\* the flag a draw leaves in register 15
Flag(collision) == IF collision THEN 1 ELSE 0

\* C5: after two consecutive draws with identical sprite bytes, height and
\* start position, every cell of the framebuffer has the value it had before
\* the first draw, whatever the start position (clipped or not) and the
\* prior content.
C5_DrawSelfInverse == TwoIdenticalDraws => buffer = Previous.buffer

\* C5: two identical draws of a sprite clipped at the right edge and at the
\* bottom edge, on a framebuffer that was not empty, the first of which
\* changed it
C5_Witness ==
    /\ TwoIdenticalDraws
    /\ StartColumn(Last) = 63
    /\ StartRow(Last) = 31
    /\ n(Last.instruction) = 2
    /\ Previous.buffer # {}
    /\ Last.buffer # Previous.buffer
    /\ buffer = Previous.buffer

\* C6 (as it is in the code): after two consecutive identical draws, the
\* flag the first draw left is 1 exactly if it turned a cell off, and the
\* flag the second draw leaves is 1 exactly if the first draw turned a cell
\* on; the second flag is the inverse of the first only if the first draw
\* toggled a cell and all the cells it toggled had the same value.
C6_SecondFlagFromFirstDraw ==
    TwoIdenticalDraws =>
        /\ Last.registers[15] = Flag(Previous.buffer \ Last.buffer # {})
        /\ registers[15] = Flag(Last.buffer \ Previous.buffer # {})

\* C6 (as the specification words it): the flag the second draw leaves is the inverse
\* of the flag the first draw left.
C6_SecondFlagInverse ==
    TwoIdenticalDraws => registers[15] = 1 - Last.registers[15]

\* C6: two identical draws on a framebuffer where the sprite met cells of both
\* values: both flags are 1
C6_Witness ==
    /\ TwoIdenticalDraws
    /\ Last.registers[15] = 1
    /\ registers[15] = 1
    /\ Previous.buffer \ Last.buffer # {}
    /\ Last.buffer \ Previous.buffer # {}

\* C7: the clear screen leaves every cell of the framebuffer false, whatever
\* it held, and appends to the display feed one Clear and nothing else.
C7_ClearScreen ==
    [][ClearDisplay =>
        /\ buffer' = {}
        /\ display_channel' = Append(display_channel, <<"Clear">>)]_vars

\* C7: a clear screen has run on a framebuffer that was not empty
C7_Witness ==
    /\ hist # <<>>
    /\ Decode(Last.instruction) = "clear_display"
    /\ Last.buffer # {}
    /\ buffer = {}
    /\ display_channel # <<>>
    /\ display_channel[Len(display_channel)] = <<"Clear">>
    /\ display_channel[Len(display_channel) - 1][1] = "Set"

\* C8: after a block load of registers 0..X with the index register at I,
\* when the block store that wrote the memory last was of registers 0..X
\* with the index register at I, registers 0..X hold the values they held at
\* the store, whatever they held in between (zeros, in the programs run),
\* for X from 0 to 15 and I up to the last address.
C8_BlockRoundTrip ==
    (/\ AtLoopTop
     /\ hist # <<>>
     /\ Decode(Last.instruction) = "load_registers"
     /\ stored.valid
     /\ stored.register_number = x(Last.instruction)
     /\ stored.index_register = Last.index_register) =>
        \A k \in 0 .. x(Last.instruction) : registers[k] = stored.registers[k]

\* C8: registers 0..15, stored at the last address and then zeroed, have been
\* loaded back, with the increment of the index register on
C8_Witness ==
    /\ AtLoopTop
    /\ hist # <<>>
    /\ Decode(Last.instruction) = "load_registers"
    /\ x(Last.instruction) = 15
    /\ settings.load_store_increment
    /\ stored.valid
    /\ stored.register_number = 15
    /\ stored.index_register = MEMORY_SIZE - 1
    /\ Last.index_register = MEMORY_SIZE - 1
    /\ \A k \in Register : Last.registers[k] = 0
    /\ \A k \in Register : registers[k] = BlockValue(k)

\* C9: the register add leaves 1 in register 15 if the values a of register X
\* and b of register Y, read before any write, have a sum above 255, and 0
\* otherwise; it leaves (a + b) mod 256 in register X unless X is 15.
C9_AddRegister ==
    [][AddRegister =>
        LET a == registers[x(instruction')]
            b == registers[y(instruction')]
        IN  /\ registers'[15] = Flag(a + b > 255)
            /\ x(instruction') # 15 => registers'[x(instruction')] = (a + b) % 256]_vars

\* C9: a register add of 128 and 128 has left 0 in register X and the carry
C9_Witness ==
    /\ hist # <<>>
    /\ Decode(Last.instruction) = "add_register"
    /\ x(Last.instruction) = 0
    /\ Last.registers[0] = 128
    /\ Last.registers[y(Last.instruction)] = 128
    /\ registers[0] = 0
    /\ registers[15] = 1

\* C10: the subtract X - Y leaves 1 in register 15 if a >= b and 0 otherwise,
\* the subtract Y - X leaves 1 if b >= a and 0 otherwise, a and b being the
\* values of registers X and Y before the instruction; register X is left
\* with (a - b) mod 256, or with (b - a) mod 256, unless X is 15.
C10_SubRegister ==
    [][LET a == registers[x(instruction')]
           b == registers[y(instruction')]
       IN  /\ SubRegisterXY =>
                /\ registers'[15] = Flag(a >= b)
                /\ x(instruction') # 15 => registers'[x(instruction')] = (a - b) % 256
           /\ SubRegisterYX =>
                /\ registers'[15] = Flag(b >= a)
                /\ x(instruction') # 15 => registers'[x(instruction')] = (b - a) % 256]_vars

\* C10: the subtract Y - X of the equal values 128 and 128 has left 0 and the
\* flag 1, register Y being register 15
C10_Witness ==
    /\ hist # <<>>
    /\ Decode(Last.instruction) = "sub_register_yx"
    /\ x(Last.instruction) = 0
    /\ y(Last.instruction) = 15
    /\ Last.registers[0] = 128
    /\ Last.registers[15] = 128
    /\ registers[0] = 0
    /\ registers[15] = 1

\* what a timer check that saw the time `since` makes of a timer
Paced(value, since) ==
    IF since < TIMER_DECREMENT THEN value
    ELSE IF value = 0 THEN 0
    ELSE value - 1

\* C11: in an iteration of the run loop each timer is decremented once if at
\* least one period has elapsed since the last checkpoint, however many, and
\* not at all if less than one has; a decrement lowers a timer above 0 by 1
\* and leaves a timer at 0; what the iteration changes of a timer besides is
\* what its instruction sets (FX15, FX18), and FX07 reads the delay timer
\* after the decrement.
C11_TimerPacing ==
    [][(AtLoopTop /\ Interpreter) =>
        LET op == Decode(instruction')
        IN  /\ op # "set_delay_timer_value" =>
                  delay_timer' = Paced(delay_timer, elapsed')
            /\ op # "set_sound_timer_value" =>
                  sound_timer' = Paced(sound_timer, elapsed')
            /\ op = "get_delay_timer_value" =>
                  registers'[x(instruction')] = Paced(delay_timer, elapsed')
            /\ delay_timer' <= delay_timer \/ op = "set_delay_timer_value"
            /\ sound_timer' <= sound_timer \/ op = "set_sound_timer_value"]_vars

\* C11: more than two periods had elapsed when FX18 ran: the delay timer,
\* set to 3 by the instruction before, went down by one, to 2
C11_Witness ==
    /\ Len(hist) = 2
    /\ Decode(Last.instruction) = "set_sound_timer_value"
    /\ Decode(Previous.instruction) = "set_delay_timer_value"
    /\ Last.registers[0] = 3
    /\ elapsed > 2 * TIMER_DECREMENT
    /\ delay_timer = 2
    /\ sound_timer = 3

\* the events of a queue that are about a key, and its KeyUp events
KeyEvents(queue, key) == SelectSeq(queue, LAMBDA e : Len(e) = 2 /\ e[2] = key)
Releases(queue) == SelectSeq(queue, LAMBDA e : e[1] = "KeyUp")

\* the press state of a key once a queue is drained: what its most recent
\* event says
PressStateAfter(queue, key, before) ==
    LET events == KeyEvents(queue, key)
    IN  IF events = <<>> THEN before ELSE events[Len(events)][1] = "KeyDown"

\* the pending slot once a queue is drained, recording a release only while a
\* key-wait is in progress; and recording it in every state
SlotAfterWhileWaiting(queue, slot) ==
    LET ups == Releases(queue)
    IN  IF ups = <<>> \/ slot[1] = "NotWaiting" THEN slot
        ELSE <<"Pressed", ups[Len(ups)][2]>>

SlotAfterInEveryState(queue, slot) ==
    LET ups == Releases(queue)
    IN  IF ups = <<>> THEN slot ELSE <<"Pressed", ups[Len(ups)][2]>>

\* the iteration has drained the queue, the press states are what the drained
\* events say, and the slot was `slot` after the drain: an instruction other
\* than the key-wait leaves it, the key-wait takes its key or starts waiting
Drained(slot) ==
    /\ event_channel' = <<>>
    /\ \A key \in 0 .. 15 :
          key_states'[key] = PressStateAfter(event_channel, key, key_states[key])
    /\ IF Decode(instruction') # "get_key" THEN last_pressed' = slot
       ELSE IF slot[1] = "Pressed"
            THEN KeyTaken(slot[2]) /\ last_pressed' = <<"NotWaiting">>
            ELSE KeyPolled /\ last_pressed' = <<"Waiting">>

\* a step of the interpreter thread from the top of its loop: the sends of the
\* presentation thread lengthen the queue, an iteration empties it
Iteration == AtLoopTop /\ Len(event_channel') <= Len(event_channel)

C13_OneShot ==
    [][(Iteration /\ Decode(instruction') = "get_key"
                  /\ released'.found_pending = NO_KEY) =>
        /\ KeyPolled
        /\ last_pressed' = <<"Waiting">>
        /\ released'.waiting]_vars

\* C13: a key-wait consumed the release of key 1, the jump led back to the
\* key-wait, and the key-wait, with no KeyUp drained since, has rewound the
\* program counter instead of taking key 1 again
C13_Witness ==
    /\ Len(hist) = 2
    /\ Decode(Last.instruction) = "get_key"
    /\ Decode(Previous.instruction) = "jump"
    /\ Last.registers[x(Last.instruction)] = 1
    /\ released.found_pending = NO_KEY
    /\ released.waiting
    /\ last_pressed = <<"Waiting">>
    /\ registers = Last.registers
    /\ program_counter = Last.program_counter

\* the interpreter is busy-polling a key-wait; a KeyUp is on the queue; the
\* key-wait has completed, the program counter being past it
BusyPolling ==
    /\ panicked = ""
    /\ last_pressed = <<"Waiting">>
    /\ Decode(get_u16(memory, program_counter)) = "get_key"

ReleaseQueued == \E i \in 1 .. Len(event_channel) : event_channel[i][1] = "KeyUp"

KeyWaitCompleted ==
    /\ Len(hist) >= 1
    /\ Decode(Last.instruction) = "get_key"
    /\ program_counter = Last.program_counter + 2
    /\ last_pressed = <<"NotWaiting">>
    /\ registers[x(Last.instruction)] = released.found_latched

\* C14: the interpreter thread being scheduled, a KeyUp placed on the queue
\* while the interpreter busy-polls a key-wait leads to the completion of the
\* key-wait, with the program counter past it and the released key in
\* register X; and at the top of its loop the interpreter can always take its
\* next iteration, the queue being empty or not.
C14_KeyWaitCompletes ==
    /\ (BusyPolling /\ ReleaseQueued) ~> KeyWaitCompleted
    /\ [](AtLoopTop => ENABLED (Jump \/ GetKey))

\* C14: the key-wait polled with the queue empty, then took key 0, whose
\* release was placed on the queue while it polled
C14_Witness ==
    /\ Len(hist) = 2
    /\ Previous = Last
    /\ KeyWaitCompleted
    /\ released.found_latched = 0
    /\ released.found_pending = 0
    /\ event_channel = <<>>

\* a Stop is on the queue
StopQueued == \E i \in 1 .. Len(event_channel) : event_channel[i] = <<"Stop">>

\* the arms of execute that the key-wait loop selects
ExecuteKeyLoop(f) ==
    CASE Decode(f.instruction) = "jump" -> jump(f, nnn(f.instruction))
      [] Decode(f.instruction) = "get_key" -> get_key(f, x(f.instruction))

\* one iteration of the run loop from the interpreter `start`
IterateFrom(start, since) ==
    LET f == fetch(process(pace(start, since)))
    IN  Conclude(f, ExecuteKeyLoop(f))

\* the iteration made of the interpreter what it would have made of it with
\* the stopped flag the other way round, the flag apart
SameWhateverTheFlag ==
    \E since \in ElapsedSamples :
        \E other \in {IterateFrom([Self EXCEPT !.has_stopped = ~has_stopped], since)} :
            Self' = [other EXCEPT !.has_stopped = has_stopped']

\* C15: the stopped flag, once set, is never reset; an iteration sets it
\* exactly if it drains a Stop; the iteration fetches and executes as it
\* would have done with the flag the other way round; and with the flag set
\* the interpreter at the top of its loop can still take its next iteration:
\* the loop has no terminal state.
C15_StopIsOnlyALatch ==
    /\ [][/\ has_stopped => has_stopped'
          /\ Iteration =>
                /\ has_stopped' = (has_stopped \/ StopQueued)
                /\ instruction' = get_u16(memory, program_counter)
                /\ SameWhateverTheFlag]_vars
    /\ []((has_stopped /\ panicked = "" /\ ~draw.active) =>
              ENABLED (Jump \/ GetKey))

\* C15: with the stopped flag set, a key-wait has polled and then has taken
\* key 1, released meanwhile
C15_Witness ==
    /\ has_stopped
    /\ Len(hist) = 2
    /\ Decode(Last.instruction) = "get_key"
    /\ Previous = Last
    /\ released.found_latched = 1
    /\ registers[x(Last.instruction)] = 1
    /\ program_counter = Last.program_counter + 2
    /\ event_channel = <<>>
    /\ panicked = ""

\* the arms of execute that do register, timer or index arithmetic
NumericArms ==
    {"add_value", "add_register", "sub_register_xy", "sub_register_yx", "shift_right",
     "shift_left", "add_to_index", "store_registers", "load_registers",
     "binary_coded_decimal", "display", "jump_with_offset", "set_delay_timer_value",
     "set_sound_timer_value", "get_delay_timer_value"}

\* C16 (as the specification words it): no instruction that does register,
\* timer or index arithmetic leaves the interpreter failed because of an
\* arithmetic overflow.
C16_NumericNeverFails ==
    ~(/\ panicked \in {OVERFLOW_ADD, OVERFLOW_SUB}
      /\ Decode(instruction) \in NumericArms)

\* C16: what holds of it: the arithmetic on the 8-bit registers and the
\* decrement of the timers fail in no build, and the build without overflow
\* checks fails on no arithmetic at all
C16_RegisterAndTimerNeverFail ==
    panicked \in {OVERFLOW_ADD, OVERFLOW_SUB} =>
        /\ overflow_checks
        /\ Decode(instruction) \in
              {"add_to_index", "store_registers", "load_registers",
               "binary_coded_decimal", "display", "get_key"}

\* C16: the build with overflow checks has panicked in FX1E, the index
\* register being 0xFFFF (0xFFF + 480 * 0x80) and the addend 0x80
C16_Witness ==
    /\ overflow_checks
    /\ panicked = OVERFLOW_ADD
    /\ Decode(instruction) = "add_to_index"
    /\ index_register = 4095 + 480 * 128
    /\ registers[x(instruction)] = 128

\* the cells of the address space, and the byte a memory holds in one
Cells == 0 .. MEMORY_SIZE - 1
CellOf(mem, cell) == IF cell \in DOMAIN mem THEN mem[cell] ELSE 0

\* the cell an address is reduced to
Reduced(address) == address % MEMORY_SIZE

\* the memory `after` is the memory `mem` with the bytes `values` (a function
\* of the offsets 0 .. last) written to the cells the addresses from
\* `address` on are reduced to
Written(after, mem, address, values, last) ==
    \A cell \in Cells :
        CellOf(after, cell) =
            IF \E offset \in 0 .. last : cell = Reduced(address + offset)
            THEN values[CHOOSE offset \in 0 .. last : cell = Reduced(address + offset)]
            ELSE CellOf(mem, cell)

\* the cells of the framebuffer under the set bits of the sprite rows read
\* from the cells the addresses from `address` on are reduced to, the sprite
\* starting at (column, row) and what is past an edge being left out
SpriteCells(mem, address, column, row, height) ==
    {px + DISPLAY_WIDTH * py : <<px, py>> \in
        {<<column + bit, row + line>> : bit \in 0 .. 7, line \in 0 .. height - 1} \cap
        {c \in (0 .. DISPLAY_WIDTH - 1) \X (0 .. DISPLAY_HEIGHT - 1) :
            (CellOf(mem, Reduced(address + c[2] - row)) \div 2 ^ (7 - (c[1] - column))) % 2 = 1}}

\* the last instruction completed is a draw, which has returned
DrawCompleted ==
    /\ AtLoopTop
    /\ Len(hist) >= 1
    /\ Decode(Last.instruction) = "display"

\* the digits of a byte, as a function of the offsets 0 .. 2
Digits(value) ==
    [offset \in 0 .. 2 |->
        IF offset = 0 THEN value \div 100
        ELSE IF offset = 1 THEN (value \div 10) % 10 ELSE value % 10]

DrawnFrom == IF draw'.active THEN draw'.before ELSE Last'

\* C18: every step of the interpreter that changes the display feed appends
\* one event to it; if the event is a Set, its index is x + 64 * y for a
\* column x and a row y of the frame (x < 64, y < 32, the index in 0..2047),
\* x being one of the eight columns from VX mod 64 on and y one of the N rows
\* from VY mod 32 on, VX and VY being the registers when the draw was
\* fetched: a pixel past the right or the bottom edge is toggled nowhere.
C18_DrawClipping ==
    [][display_channel' # display_channel =>
        /\ Len(display_channel') = Len(display_channel) + 1
        /\ SubSeq(display_channel', 1, Len(display_channel)) = display_channel
        /\ LET event == display_channel'[Len(display_channel')]
               px == event[3] % DISPLAY_WIDTH
               py == event[3] \div DISPLAY_WIDTH
           IN  event[1] = "Set" =>
                 /\ Decode(DrawnFrom.instruction) = "display"
                 /\ event[3] \in 0 .. DISPLAY_CELLS - 1
                 /\ px \in StartColumn(DrawnFrom) .. StartColumn(DrawnFrom) + 7
                 /\ py \in StartRow(DrawnFrom) ..
                             StartRow(DrawnFrom) + n(DrawnFrom.instruction) - 1
                 /\ py < DISPLAY_HEIGHT
                 /\ buffer' = IF event[2] THEN buffer \cup {event[3]}
                              ELSE buffer \ {event[3]}]_vars

\* C18: a sprite of two rows of eight pixels drawn at VX = 63, VY = 31 on the
\* empty frame has toggled the last cell of the frame and no other, and the
\* feed ends with the Set of the index 2047
C18_Witness ==
    /\ DrawCompleted
    /\ get_value(Last.registers, x(Last.instruction)) = 63
    /\ get_value(Last.registers, y(Last.instruction)) = 31
    /\ n(Last.instruction) = 2
    /\ CellOf(memory, Reduced(Last.index_register)) = 255
    /\ Last.buffer = {}
    /\ buffer = {DISPLAY_CELLS - 1}
    /\ display_channel # <<>>
    /\ display_channel[Len(display_channel)] = <<"Set", TRUE, DISPLAY_CELLS - 1>>

\* the cells under the set bits of the sprite of the draw completed last, in
\* the frame
LastSprite ==
    SpriteCells(memory, Last.index_register, StartColumn(Last), StartRow(Last),
                n(Last.instruction))

\* C19: when a draw has returned, the cells it toggled are the cells in the
\* frame under the set bits of its sprite and no other; register 15 is 1 if
\* one of them was set before the draw and 0 if none was, in particular if
\* the sprite has no set bit or none in the frame; the draw changes no other
\* register.
C19_CollisionFlag ==
    DrawCompleted =>
        \E toggled \in {LastSprite} :
            /\ buffer \ Last.buffer = toggled \ Last.buffer
            /\ Last.buffer \ buffer = toggled \cap Last.buffer
            /\ registers[15] = Flag(toggled \cap Last.buffer # {})
            /\ \A r \in Register \ {15} : registers[r] = Last.registers[r]

\* C19: a draw clipped at the right edge has returned 1, having cleared a
\* cell that was set and set a cell that was not; the flag was 0 before it
C19_Witness ==
    /\ DrawCompleted
    /\ StartColumn(Last) = 62
    /\ LastSprite \cap Last.buffer # {}
    /\ LastSprite \ Last.buffer # {}
    /\ Last.registers[15] = 0
    /\ registers[15] = 1

\* C20: FX55 and FX65 leave the index register at its prior value plus X + 1
\* when the load/store increment is enabled and at its prior value when it is
\* not.  FX55 writes the registers 0..X to the cells at the offsets 0..X from
\* the prior index value, changes no other cell and no register; FX65 loads
\* the registers 0..X from those cells, changes no other register and no
\* cell.  (The prior index value plus X + 1 fits the 16 bits of the index
\* register; C16 is about the sums that do not.)
C20_BlockTransferIndex ==
    [][(/\ Iteration
        /\ Decode(instruction') \in {"store_registers", "load_registers"}
        /\ index_register + x(instruction') + 1 < U16) =>
        LET vx == x(instruction')
        IN  /\ panicked' = ""
            /\ index_register' =
                  IF settings.load_store_increment THEN index_register + vx + 1
                  ELSE index_register
            /\ Decode(instruction') = "store_registers" =>
                  /\ registers' = registers
                  /\ Written(memory', memory, index_register, registers, vx)
            /\ Decode(instruction') = "load_registers" =>
                  /\ memory' = memory
                  /\ \A r \in Register :
                        registers'[r] =
                            IF r <= vx THEN CellOf(memory, Reduced(index_register + r))
                            ELSE registers[r]]_vars

\* C20: with the increment enabled, FX55 with X = 1 at I = 0xFFF has left I at
\* 0x1001, V1 in the cell 0 and the registers as they were
C20_Witness ==
    /\ AtLoopTop
    /\ hist # <<>>
    /\ Decode(Last.instruction) = "store_registers"
    /\ x(Last.instruction) = 1
    /\ settings.load_store_increment
    /\ Last.index_register = MEMORY_SIZE - 1
    /\ index_register = MEMORY_SIZE + 1
    /\ registers = Last.registers
    /\ CellOf(memory, MEMORY_SIZE - 1) = BlockValue(0)
    /\ CellOf(memory, 0) = BlockValue(1)

\* C21: the add-to-index leaves in the index register its prior value plus
\* the value of register X (the sum fitting in the 16 bits of the register);
\* with the index-overflow-flag quirk on it leaves 1 in register 15 if the
\* resulting index is above 0x0FFF and 0 otherwise, and changes no other
\* register; with the quirk off it changes no register at all.
C21_AddToIndex ==
    [][(AddToIndex /\ panicked' = "") =>
        LET sum == index_register + registers[x(instruction')]
        IN  /\ sum < U16 => index_register' = sum
            /\ index_register' = sum % U16
            /\ IF settings.add_to_index_overflow
               THEN registers' = [registers EXCEPT
                                     ![15] = Flag(index_register' > INDEX_CEILING)]
               ELSE registers' = registers]_vars

\* C21: with the quirk on, adding V0 = 1 to the index 0x0FFF has left 0x1000
\* in the index register and 1 in register 15, which held 7
C21_Witness ==
    /\ hist # <<>>
    /\ Decode(Last.instruction) = "add_to_index"
    /\ settings.add_to_index_overflow
    /\ x(Last.instruction) = 0
    /\ Last.registers[0] = 1
    /\ Last.registers[15] = 7
    /\ Last.index_register = INDEX_CEILING
    /\ index_register = INDEX_CEILING + 1
    /\ registers[15] = 1
    /\ registers[0] = 1

\* C22: a shift takes the value v of register Y if the assign-before-shift
\* quirk is on and the value of register X, whatever register Y holds, if it
\* is off; it leaves v shifted by one bit in register X and then the bit
\* shifted out of v (bit 0 for the shift right, bit 7 for the shift left) in
\* register 15, and changes no other register; for every 8-bit value and
\* both settings of the quirk.
C22_Shift ==
    [][(ShiftRight \/ ShiftLeft) =>
        LET rx == x(instruction')
            v == IF settings.assign_shift THEN registers[y(instruction')]
                 ELSE registers[rx]
            right == Decode(instruction') = "shift_right"
            shifted == IF right THEN v \div 2 ELSE (2 * v) % U8
            out == IF right THEN v % 2 ELSE v \div 128
        IN  registers' = [[registers EXCEPT ![rx] = shifted] EXCEPT ![15] = out]]_vars

\* C22: with the quirk on, the shift right of V0 = 1 by V1 = 254 has left
\* 127 in V0 and the bit 0 of 254, not that of 1, in register 15
C22_Witness ==
    /\ hist # <<>>
    /\ Decode(Last.instruction) = "shift_right"
    /\ settings.assign_shift
    /\ x(Last.instruction) = 0
    /\ y(Last.instruction) = 1
    /\ Last.registers[0] = 1
    /\ Last.registers[1] = 254
    /\ registers[0] = 127
    /\ registers[15] = 0

\* C23: a call appends the address of the instruction that follows it to the
\* stack and leaves NNN in the program counter; a return on a stack that is
\* not empty removes the address appended last and leaves it in the program
\* counter, and it is the address that follows the call still open that was
\* made last; no other instruction changes the stack; and after every
\* instruction the stack holds as many addresses as calls have completed
\* less the returns that have completed, one for each call still open.
C23_CallReturn ==
    [][Iteration =>
        /\ (Decode(instruction') = "call_subroutine" /\ panicked' = "") =>
              /\ stack' = Append(stack, (program_counter + 2) % U16)
              /\ program_counter' = nnn(instruction')
        /\ (Decode(instruction') = "return_subroutine" /\ panicked' = ""
                /\ stack # <<>>) =>
              /\ program_counter' = stack[Len(stack)]
              /\ stack' = SubSeq(stack, 1, Len(stack) - 1)
              /\ program_counter' = (calls.sites[Len(calls.sites)] + 2) % U16
        /\ (panicked' = "" /\ Decode(instruction') \notin
                              {"call_subroutine", "return_subroutine"}) =>
              stack' = stack
        /\ Len(stack') = calls'.calls - calls'.returns
        /\ Len(stack') = Len(calls'.sites)]_vars

\* C23: the main program called the first subroutine, which called the
\* second, which has returned: the interpreter is in the first subroutine
\* after its call, and the address after the call of the main program is
\* still on the stack
C23_Witness ==
    /\ hist # <<>>
    /\ Decode(Last.instruction) = "return_subroutine"
    /\ calls = [calls |-> 2, returns |-> 1, sites |-> <<WordAt(0)>>]
    /\ stack = <<WordAt(1)>>
    /\ Last.program_counter = WordAt(6)
    /\ program_counter = WordAt(4)
    /\ panicked = ""

\* the steps of an iteration taken in two: the drain of the events, and the
\* execution of a key-wait
DrainStep == ~drained /\ drained'
KeyWaitStep == drained /\ ~drained' /\ panicked' = "" /\ Decode(instruction') = "get_key"

\* a KeyUp drained when no key-wait has found the slot empty since the last
\* consumption is not recorded; a key-wait executed then takes no key; and the
\* key a key-wait takes is the one of the last KeyUp drained since a key-wait
\* found the slot empty
RecordedOnlyWhileWaiting ==
    /\ (last_pressed = <<"NotWaiting">>) = ~released.waiting
    /\ (DrainStep /\ ~released.waiting) =>
          /\ last_pressed' = <<"NotWaiting">>
          /\ released'.latched = NO_KEY
    /\ (KeyWaitStep /\ ~released.waiting) =>
          /\ KeyPolled
          /\ last_pressed' = <<"Waiting">>
    /\ KeyWaitStep =>
          IF released.latched = NO_KEY THEN KeyPolled ELSE KeyTaken(released.latched)

\* C24 (as it is in the code): a KeyUp drained when no execution of a
\* key-wait has found the slot empty since the last consumption, and so every
\* KeyUp drained before the first key-wait runs, is not recorded; a key-wait
\* never completes on its first execution; and the key it stores is the one
\* of the last KeyUp drained after it first executed.  That KeyUp may have
\* been sent, the key released, before the key-wait first executed: between
\* the drain of the events and the execution of the key-wait in the same
\* iteration.
C24_DrainedAfterFirstExecution ==
    [][RecordedOnlyWhileWaiting]_vars

\* C24 (as the specification words it): moreover the key a key-wait stores is
\* always one released, its KeyUp sent, after the key-wait first executed.
C24_ReleasedAfterFirstExecution ==
    [][/\ RecordedOnlyWhileWaiting
       /\ (KeyWaitStep /\ released.latched # NO_KEY) => released.latched_in_wait]_vars

\* C24: the release of key 0 was drained before the first key-wait ran and
\* was not recorded: the key-wait, executed for the first time, has polled;
\* the release of key 1, sent after the drain and before that execution, is
\* on the queue
C24_Witness ==
    /\ Len(hist) = 1
    /\ Decode(Last.instruction) = "get_key"
    /\ released.found_pending = 0
    /\ released.found_latched = NO_KEY
    /\ last_pressed = <<"Waiting">>
    /\ program_counter = Last.program_counter
    /\ registers = Last.registers
    /\ event_channel = <<<<"KeyUp", 1>>>>
    /\ released.queued = <<FALSE>>

=============================================================================
